---- MODULE Spec2Model ----
(***************************************************************************)
(* A model of the Sound-Change Engine (SCE): the pattern matcher           *)
(* (patterns.py), the word type (words.py) and the rule-application        *)
(* pipeline with rule blocks (rules.py).                                   *)
(*                                                                         *)
(* Conventions.  A string is a sequence of one-character strings, so a     *)
(* phone is e.g. <<"a">> and a word's phones are a sequence of phones.     *)
(* Python positions are 0-based; Py(seq, i) reads position i.  A slice is  *)
(* a record [start, stop].  A function that may raise returns a record     *)
(* whose field st is "ok" or the name of the exception raised.  A dict     *)
(* int -> int (catixes) is a function on a finite set of naturals; the     *)
(* subscript None is written NoSub.                                        *)
(***************************************************************************)
EXTENDS Integers, Sequences, FiniteSets, TLC

\* ------------------------------------------------------------------------
\* Python helpers
\* ------------------------------------------------------------------------
Min(a, b) == IF a < b THEN a ELSE b
Max(a, b) == IF a > b THEN a ELSE b

\* seq[i] for a Python index i (negative indices count from the end);
\* the caller checks the range
Py(seq, i) == IF i < 0 THEN seq[Len(seq) + i + 1] ELSE seq[i + 1]

\* the position a slice bound i denotes in a list of length n
SliceIndex(i, n) == IF i < 0 THEN Max(n + i, 0) ELSE Min(i, n)

\* seq[a:b]
PySlice(seq, a, b) ==
    SubSeq(seq, SliceIndex(a, Len(seq)) + 1, SliceIndex(b, Len(seq)))

\* seq[:b] and seq[a:]
PyPrefix(seq, b) == SubSeq(seq, 1, SliceIndex(b, Len(seq)))
PySuffix(seq, a) == SubSeq(seq, SliceIndex(a, Len(seq)) + 1, Len(seq))

Reverse(seq) == [i \in 1..Len(seq) |-> seq[Len(seq) + 1 - i]]

RECURSIVE Concat(_)
Concat(seqs) == IF seqs = <<>> THEN <<>> ELSE Head(seqs) \o Concat(Tail(seqs))

Slice(start, stop) == [start |-> start, stop |-> stop]

\* r = value; K(r): the value is computed first, as Python computes the
\* right-hand side of an assignment, and the code that follows is K of it
Bind(value, K(_)) == CHOOSE result \in {K(r) : r \in {value}} : TRUE

NoSub == 0 - 1
EmptyCatixes == <<>>

\* ------------------------------------------------------------------------
\* patterns.py: elements
\* ------------------------------------------------------------------------
Grapheme(g) == [type |-> "Grapheme", grapheme |-> g]
Ditto == [type |-> "Ditto"]
Category(cat, sub) == [type |-> "Category", category |-> cat, subscript |-> sub]
Wildcard(greedy, extended) ==
    [type |-> "Wildcard", greedy |-> greedy, extended |-> extended]
Repetition(pattern, number) ==
    [type |-> "Repetition", pattern |-> pattern, number |-> number]
WildcardRepetition(pattern, greedy) ==
    [type |-> "WildcardRepetition", pattern |-> pattern, greedy |-> greedy]
Optional(pattern, greedy) ==
    [type |-> "Optional", pattern |-> pattern, greedy |-> greedy]
SylBreak == [type |-> "SylBreak"]
TargetRef(direction) == [type |-> "TargetRef", direction |-> direction]

\* hasattr(element, 'match_pattern')
HasMatchPattern(element) ==
    element.type \in {"Wildcard", "Repetition", "WildcardRepetition", "Optional"}

Ok(length, catixes) == [st |-> "ok", length |-> length, catixes |-> catixes]
Raise(exc) == [st |-> exc]

\* advance(word, length, start, stop): the moved anchor, or MatchFailed
advance(word, length, dir, pos) ==
    IF dir = "start"
    THEN IF 0 <= pos /\ pos <= Len(word) - length
         THEN [st |-> "ok", pos |-> pos + length]
         ELSE Raise("MatchFailed")
    ELSE IF length <= pos /\ pos <= Len(word)
         THEN [st |-> "ok", pos |-> pos - length]
         ELSE Raise("MatchFailed")

\* get_index reading, from a stop anchor, the phone after the anchor
get_index_after_stop(word, dir, pos) ==
    IF 0 <= pos /\ pos < Len(word)
    THEN [st |-> "ok", index |-> pos]
    ELSE Raise("MatchFailed")

\* get_index(word, start, stop)
get_index(word, dir, pos) ==
    LET index == IF dir = "start" THEN pos ELSE pos - 1
    IN  IF 0 <= index /\ index < Len(word)
        THEN [st |-> "ok", index |-> index]
        ELSE Raise("MatchFailed")

\* cats.Category.index(item): position of the first element equal to item
Category_index(cat, item) ==
    CHOOSE i \in 0..(Len(cat) - 1) :
        /\ cat[i + 1] = item
        /\ \A j \in 0..(i - 1) : cat[j + 1] # item

InCategory(item, cat) == \E i \in 1..Len(cat) : cat[i] = item

\* CharacterMixin._match as overridden by Grapheme, Ditto and Wildcard
Character__match(element, word, index) ==
    CASE element.type = "Grapheme" -> Py(word, index) = element.grapheme
      [] element.type = "Ditto" ->
            index # 0 /\ Py(word, index) = Py(word, index - 1)
      [] element.type = "Wildcard" ->
            element.extended \/ Py(word, index) # <<"#">>

\* CharacterMixin.match
Character_match(element, word, dir, pos, catixes) ==
    LET ix == get_index(word, dir, pos)
    IN  IF ix.st # "ok" THEN ix
        ELSE IF Character__match(element, word, ix.index)
             THEN Ok(1, catixes)
             ELSE Raise("MatchFailed")

\* Category.match taking a phone of the category whatever the subscript is
\* bound to
Category_match_unbound(element, word, dir, pos, catixes) ==
    LET ix == get_index(word, dir, pos)
    IN  IF ix.st # "ok" THEN ix
        ELSE IF InCategory(Py(word, ix.index), element.category)
             THEN Ok(1, catixes) ELSE Raise("MatchFailed")

\* Category.match returning the binding it makes without the bindings it
\* was given
Category_match_rebinding(element, word, dir, pos, catixes) ==
    LET ix == get_index(word, dir, pos)
        cat == element.category
        sub == element.subscript
    IN  IF ix.st # "ok" THEN ix
        ELSE IF ~InCategory(Py(word, ix.index), cat) THEN Raise("MatchFailed")
        ELSE IF sub = NoSub THEN Ok(1, catixes)
        ELSE IF sub \in DOMAIN catixes
        THEN IF Py(word, ix.index) = cat[(catixes[sub] % Len(cat)) + 1]
             THEN Ok(1, catixes) ELSE Raise("MatchFailed")
        ELSE Ok(1, (sub :> Category_index(cat, Py(word, ix.index))))

\* patterns.Category.match
Category_match(element, word, dir, pos, catixes) ==
    LET ix == get_index(word, dir, pos)
        cat == element.category
        sub == element.subscript
    IN  IF ix.st # "ok" THEN ix
        ELSE IF sub = NoSub
        THEN IF InCategory(Py(word, ix.index), cat)
             THEN Ok(1, catixes) ELSE Raise("MatchFailed")
        ELSE IF sub \in DOMAIN catixes
        THEN IF catixes[sub] >= Len(cat) \/ catixes[sub] < 0 - Len(cat)
             THEN Raise("IndexError")
             ELSE IF Py(word, ix.index) = Py(cat, catixes[sub])
                  THEN Ok(1, catixes) ELSE Raise("MatchFailed")
        ELSE IF InCategory(Py(word, ix.index), cat)
             THEN Ok(1, (sub :> Category_index(cat, Py(word, ix.index))) @@ catixes)
             ELSE Raise("MatchFailed")

\* ------------------------------------------------------------------------
\* patterns.py: the recursive matcher
\* ------------------------------------------------------------------------
RECURSIVE Pattern__match_loop(_, _, _, _, _, _, _)
RECURSIVE Element_match(_, _, _, _, _)
RECURSIVE Element_match_pattern(_, _, _, _, _, _)
RECURSIVE Branch_match_pattern(_, _, _, _, _, _)
RECURSIVE Wildcard_match_pattern(_, _, _, _, _, _)
RECURSIVE Optional__match_branch(_, _, _, _, _, _)
RECURSIVE Repetition_loop(_, _, _, _, _, _, _)

\* Pattern._match
Pattern__match(elements, word, dir, pos, catixes) ==
    Pattern__match_loop(elements, 0, word, dir, pos, 0, catixes)

\* the for loop of Pattern._match after k elements have matched `length`
\* phones: forward the next element is elements[k] and the rest follows it,
\* backward it is elements[n-1-k] and the rest precedes it
Pattern__match_loop(elements, k, word, dir, pos, length, catixes) ==
    LET n == Len(elements)
        i == IF dir = "start" THEN k + 1 ELSE n - k
    IN  IF k = n THEN Ok(length, catixes)
        ELSE
        LET element == elements[i]
            rest == IF dir = "start" THEN SubSeq(elements, i + 1, n)
                                     ELSE SubSeq(elements, 1, i - 1)
            adv == advance(word, length, dir, pos)
        IN  IF adv.st # "ok" THEN adv
            ELSE IF HasMatchPattern(element)
            THEN Bind(Element_match_pattern(element, rest, word, dir, adv.pos, catixes),
                      LAMBDA r :
                          IF r.st = "ok" THEN Ok(length + r.length, r.catixes) ELSE r)
            ELSE Bind(Element_match(element, word, dir, adv.pos, catixes),
                      LAMBDA r :
                          IF r.st = "ok"
                          THEN Pattern__match_loop(elements, k + 1, word, dir, pos,
                                                   length + r.length, r.catixes)
                          ELSE r)

\* element.match(word, start, stop, catixes)
Element_match(element, word, dir, pos, catixes) ==
    CASE element.type \in {"Grapheme", "Ditto", "Wildcard"} ->
            Character_match(element, word, dir, pos, catixes)
      [] element.type = "Category" ->
            Category_match(element, word, dir, pos, catixes)
      [] element.type \in {"Repetition", "WildcardRepetition", "Optional"} ->
            \* SubpatternMixin.match
            Pattern__match(element.pattern, word, dir, pos, catixes)
      [] OTHER ->
            \* Element.match takes no catixes: the call of Pattern._match
            \* passes one positional argument too many
            Raise("TypeError")

\* element.match_pattern(pattern, word, start, stop, catixes)
Element_match_pattern(element, rest, word, dir, pos, catixes) ==
    CASE element.type \in {"Wildcard", "WildcardRepetition"} ->
            Wildcard_match_pattern(element, rest, word, dir, pos, catixes)
      [] element.type = "Optional" ->
            Branch_match_pattern(element, rest, word, dir, pos, catixes)
      [] element.type = "Repetition" ->
            Repetition_loop(element, rest, word, dir, pos, catixes,
                            [done |-> 0, length |-> 0])

\* WildcardMixin._match_branch and Optional._match_branch
Element__match_branch(element, rest, word, dir, pos, catixes) ==
    IF element.type = "Optional"
    THEN Optional__match_branch(element, rest, word, dir, pos, catixes)
    ELSE Wildcard_match_pattern(element, rest, word, dir, pos, catixes)

\* BranchMixin.match_pattern with the greedy and the lazy order exchanged
Branch_match_pattern_exchanged(element, rest, word, dir, pos, catixes) ==
    IF ~element.greedy
    THEN Bind(Element__match_branch(element, rest, word, dir, pos, catixes),
              LAMBDA r :
                  IF r.st = "MatchFailed"
                  THEN Pattern__match(rest, word, dir, pos, catixes)
                  ELSE r)
    ELSE Bind(Pattern__match(rest, word, dir, pos, catixes),
              LAMBDA r :
                  IF r.st # "ok"
                  THEN Element__match_branch(element, rest, word, dir, pos, catixes)
                  ELSE r)

\* BranchMixin.match_pattern: greedy tries the branch and falls back to the
\* rest on MatchFailed; lazy tries the rest and falls back to the branch on
\* any exception (bare except)
Branch_match_pattern(element, rest, word, dir, pos, catixes) ==
    IF element.greedy
    THEN Bind(Element__match_branch(element, rest, word, dir, pos, catixes),
              LAMBDA r :
                  IF r.st = "MatchFailed"
                  THEN Pattern__match(rest, word, dir, pos, catixes)
                  ELSE r)
    ELSE Bind(Pattern__match(rest, word, dir, pos, catixes),
              LAMBDA r :
                  IF r.st # "ok"
                  THEN Element__match_branch(element, rest, word, dir, pos, catixes)
                  ELSE r)

\* WildcardMixin.match_pattern: one unit, then BranchMixin.match_pattern
Wildcard_match_pattern(element, rest, word, dir, pos, catixes) ==
    Bind(Element_match(element, word, dir, pos, catixes),
         LAMBDA r1 :
             IF r1.st # "ok" THEN r1
             ELSE
             LET adv == advance(word, r1.length, dir, pos)
             IN  IF adv.st # "ok" THEN adv
                 ELSE Bind(Branch_match_pattern(element, rest, word, dir, adv.pos,
                                                r1.catixes),
                           LAMBDA r2 :
                               IF r2.st = "ok"
                               THEN Ok(r1.length + r2.length, r2.catixes)
                               ELSE r2))

\* Optional._match_branch: the inner pattern, then the rest
Optional__match_branch(element, rest, word, dir, pos, catixes) ==
    Bind(Element_match(element, word, dir, pos, catixes),
         LAMBDA r1 :
             IF r1.st # "ok" THEN r1
             ELSE
             LET adv == advance(word, r1.length, dir, pos)
             IN  IF adv.st # "ok" THEN adv
                 ELSE Bind(Pattern__match(rest, word, dir, adv.pos, r1.catixes),
                           LAMBDA r2 :
                               IF r2.st = "ok"
                               THEN Ok(r1.length + r2.length, r2.catixes)
                               ELSE r2))

\* Repetition.match_pattern: the inner pattern `number` times, then the rest
Repetition_loop(element, rest, word, dir, pos, catixes, acc) ==
    LET adv == advance(word, acc.length, dir, pos)
    IN  IF adv.st # "ok" THEN adv
        ELSE IF acc.done < element.number
        THEN Bind(Element_match(element, word, dir, adv.pos, catixes),
                  LAMBDA r :
                      IF r.st = "ok"
                      THEN Repetition_loop(element, rest, word, dir, pos, r.catixes,
                               [done |-> acc.done + 1, length |-> acc.length + r.length])
                      ELSE r)
        ELSE Bind(Pattern__match(rest, word, dir, adv.pos, catixes),
                  LAMBDA r :
                      IF r.st = "ok" THEN Ok(acc.length + r.length, r.catixes) ELSE r)

\* Pattern.match: (Match, catixes) on success, (None, {}) on MatchFailed;
\* any other exception leaves the call
Pattern_match(elements, word, dir, pos, catixes) ==
    Bind(Pattern__match(elements, word, dir, pos, catixes),
         LAMBDA r :
             IF r.st = "ok"
             THEN [st |-> "ok",
                   match |-> IF dir = "start" THEN Slice(pos, pos + r.length)
                                              ELSE Slice(pos - r.length, pos),
                   catixes |-> r.catixes]
             ELSE IF r.st = "MatchFailed"
             THEN [st |-> "None", catixes |-> EmptyCatixes]
             ELSE r)

\* Pattern.resolve: every TargetRef replaced by the target's phones as
\* Graphemes.  _rtarget is one reversed() iterator shared by the whole call:
\* the first TargetRef(-1) drains it, `used` records that.  Sub-patterns
\* are resolved by a call of their own.
RECURSIVE Pattern_resolve(_, _)
RECURSIVE Pattern_resolve_loop(_, _, _, _, _)
Pattern_resolve_loop(elements, i, target, used, acc) ==
    IF i > Len(elements) THEN acc
    ELSE
    LET element == elements[i]
        _target == [j \in 1..Len(target) |-> Grapheme(target[j])]
    IN  CASE element.type = "TargetRef" ->
                IF element.direction = 1
                THEN Pattern_resolve_loop(elements, i + 1, target, used, acc \o _target)
                ELSE Pattern_resolve_loop(elements, i + 1, target, TRUE,
                         acc \o (IF used THEN <<>> ELSE Reverse(_target)))
          [] element.type = "Repetition" ->
                Pattern_resolve_loop(elements, i + 1, target, used,
                    Append(acc, Repetition(Pattern_resolve(element.pattern, target),
                                           element.number)))
          [] element.type = "WildcardRepetition" ->
                Pattern_resolve_loop(elements, i + 1, target, used,
                    Append(acc, WildcardRepetition(Pattern_resolve(element.pattern, target),
                                                   element.greedy)))
          [] element.type = "Optional" ->
                Pattern_resolve_loop(elements, i + 1, target, used,
                    Append(acc, Optional(Pattern_resolve(element.pattern, target),
                                         element.greedy)))
          [] OTHER ->
                Pattern_resolve_loop(elements, i + 1, target, used, Append(acc, element))

Pattern_resolve(elements, target) ==
    Pattern_resolve_loop(elements, 1, target, FALSE, <<>>)

\* Pattern.as_phones: [st, phones]
RECURSIVE Pattern_as_phones(_, _, _)
RECURSIVE as_phones_loop(_, _, _, _, _)
RECURSIVE as_phones_repeat(_, _, _, _, _)
\* the loop of the Repetition case, `for _ in range(elem.number)`: `todo`
\* more copies of the inner pattern, none when the number is negative
as_phones_repeat(inner, todo, last_phone, catixes, phones) ==
    IF todo <= 0 THEN [st |-> "ok", phones |-> phones]
    ELSE
    Bind(Pattern_as_phones(inner,
             IF phones # <<>> THEN phones[Len(phones)] ELSE last_phone, catixes),
         LAMBDA r :
             IF r.st # "ok" THEN r
             ELSE as_phones_repeat(inner, todo - 1, last_phone, catixes,
                                   phones \o r.phones))

as_phones_loop(elements, i, last_phone, catixes, phones) ==
    IF i > Len(elements) THEN [st |-> "ok", phones |-> phones]
    ELSE
    LET elem == elements[i]
    IN  CASE elem.type = "Grapheme" ->
                as_phones_loop(elements, i + 1, last_phone, catixes,
                               Append(phones, elem.grapheme))
          [] elem.type = "Ditto" ->
                as_phones_loop(elements, i + 1, last_phone, catixes,
                    Append(phones, IF phones # <<>> THEN phones[Len(phones)]
                                                    ELSE last_phone))
          [] elem.type = "Category" ->
                IF elem.subscript \in DOMAIN catixes
                THEN LET ix == catixes[elem.subscript]
                     IN  IF ix >= Len(elem.category) \/ ix < 0 - Len(elem.category)
                         THEN Raise("IndexError")
                         ELSE as_phones_loop(elements, i + 1, last_phone, catixes,
                                  Append(phones, Py(elem.category, ix)))
                ELSE Raise("ValueError")
          [] elem.type = "Repetition" ->
                Bind(as_phones_repeat(elem.pattern, elem.number, last_phone,
                                      catixes, phones),
                     LAMBDA r :
                         IF r.st # "ok" THEN r
                         ELSE as_phones_loop(elements, i + 1, last_phone, catixes,
                                             r.phones))
          [] OTHER -> Raise("TypeError")

Pattern_as_phones(elements, last_phone, catixes) ==
    as_phones_loop(elements, 1, last_phone, catixes, <<>>)

\* ------------------------------------------------------------------------
\* words.py
\* ------------------------------------------------------------------------
Word(phones, graphemes, separator) ==
    [phones |-> phones, graphemes |-> graphemes, separator |-> separator]

\* matches(string1, string2): equality up to the one-character wildcard *
matches(string1, string2) ==
    IF Len(string1) # Len(string2) THEN FALSE
    ELSE IF (\A i \in 1..Len(string1) : string1[i] # "*")
            /\ (\A i \in 1..Len(string2) : string2[i] # "*")
    THEN string1 = string2
    ELSE \A i \in 1..Len(string1) :
            string1[i] = "*" \/ string2[i] = "*" \/ string1[i] = string2[i]

\* combine_graphemes(a, b): a then b in order, without the entries that
\* match an entry already kept
RECURSIVE combine_graphemes_loop(_, _)
combine_graphemes_loop(graphemes, new_graphemes) ==
    IF graphemes = <<>> THEN new_graphemes
    ELSE combine_graphemes_loop(Tail(graphemes),
            IF \E i \in 1..Len(new_graphemes) : matches(Head(graphemes), new_graphemes[i])
            THEN new_graphemes
            ELSE Append(new_graphemes, Head(graphemes)))

combine_graphemes(a, b) == combine_graphemes_loop(a \o b, <<>>)

\* the value Word.replace builds
Word_replace(word, match, replacement) ==
    Word(PyPrefix(word.phones, match.start) \o replacement
            \o PySuffix(word.phones, match.stop),
         combine_graphemes(word.graphemes, replacement),
         word.separator)

\* word[match] of Word.__getitem__: the phones of the slice
Word_slice(word, match) == PySlice(word.phones, match.start, match.stop)

\* ------------------------------------------------------------------------
\* rules.py: Target
\* ------------------------------------------------------------------------
Target(pattern, indices) == [pattern |-> pattern, indices |-> indices]

IsRaise(r) == r.st \notin {"ok", "None"}

\* the generator of Target.match: pattern.match(word, start=start) for start
\* in range(len(word)), kept when it is a match other than slice(0, 0)
RECURSIVE Target_match_loop(_, _, _, _)
Target_match_loop(pattern, word, start, found) ==
    IF start >= Len(word.phones) THEN [st |-> "ok", found |-> found]
    ELSE
    Bind(Pattern_match(pattern, word.phones, "start", start, EmptyCatixes),
         LAMBDA r :
             IF IsRaise(r) THEN r
             ELSE IF r.st = "ok" /\ r.match # Slice(0, 0)
             THEN Bind(Append(found, [match |-> r.match, catixes |-> r.catixes]),
                       LAMBDA appended :
                           Target_match_loop(pattern, word, start + 1, appended))
             ELSE Target_match_loop(pattern, word, start + 1, found))

\* [matches[ix] for ix in indices if -len(matches) <= ix < len(matches)]
Target_select(found, indices) ==
    LET kept == SelectSeq(indices,
                    LAMBDA ix : 0 - Len(found) <= ix /\ ix < Len(found))
    IN  [i \in 1..Len(kept) |-> Py(found, kept[i])]

\* a Target.match that does not read the indices
Target_match_unselected(target, word) ==
    Target_match_loop(target.pattern, word, 0, <<>>)

\* Target.match
Target_match(target, word) ==
    Bind(Target_match_loop(target.pattern, word, 0, <<>>),
         LAMBDA r :
             IF r.st # "ok" THEN r
             ELSE IF target.indices # <<>>
             THEN [st |-> "ok", found |-> Target_select(r.found, target.indices)]
             ELSE r)

\* ------------------------------------------------------------------------
\* rules.py: environments
\* ------------------------------------------------------------------------
LocalEnvironment(left, right) == [type |-> "Local", left |-> left, right |-> right]
AdjacencyEnvironment(pattern) == [type |-> "Adjacency", pattern |-> pattern]
GlobalEnvironment(pattern, indices) ==
    [type |-> "Global", pattern |-> pattern, indices |-> indices]

Val(v) == [st |-> "ok", val |-> v]

\* a LocalEnvironment.match whose right side does not see the bindings
Local_match_at_unbound(left, right, word, lpos, rpos, catixes) ==
    Bind(Pattern_match(left, word.phones, "stop", lpos, catixes),
         LAMBDA l :
             IF IsRaise(l) THEN l
             ELSE Bind(Pattern_match(right, word.phones, "start", rpos, EmptyCatixes),
                       LAMBDA r :
                           IF IsRaise(r) THEN r
                           ELSE Val(l.st = "ok" /\ r.st = "ok")))

\* the left and the right match of a LocalEnvironment at the boundaries
\* lpos and rpos; the catixes of the left match (empty if it failed) are
\* given to the right match
Local_match_at(left, right, word, lpos, rpos, catixes) ==
    Bind(Pattern_match(left, word.phones, "stop", lpos, catixes),
         LAMBDA l :
             IF IsRaise(l) THEN l
             ELSE Bind(Pattern_match(right, word.phones, "start", rpos, l.catixes),
                       LAMBDA r :
                           IF IsRaise(r) THEN r
                           ELSE Val(l.st = "ok" /\ r.st = "ok")))

\* LocalEnvironment.match
LocalEnvironment_match(env, word, match, catixes) ==
    LET target == Word_slice(word, match)
    IN  Local_match_at(Pattern_resolve(env.left, target),
                       Pattern_resolve(env.right, target),
                       word, match.start, match.stop, catixes)

\* `pattern.match(stop=lpos)[0] or pattern.match(start=rpos)[0]`
Adjacency_match_at(pattern, word, lpos, rpos, catixes) ==
    Bind(Pattern_match(pattern, word.phones, "stop", lpos, catixes),
         LAMBDA a :
             IF IsRaise(a) THEN a
             ELSE IF a.st = "ok" THEN Val(TRUE)
             ELSE Bind(Pattern_match(pattern, word.phones, "start", rpos, catixes),
                       LAMBDA b : IF IsRaise(b) THEN b ELSE Val(b.st = "ok")))

\* AdjacencyEnvironment.match
AdjacencyEnvironment_match(env, word, match, catixes) ==
    Adjacency_match_at(Pattern_resolve(env.pattern, Word_slice(word, match)),
                       word, match.start, match.stop, catixes)

\* the indices a GlobalEnvironment names: negative ones count from the end
Global_indices(env, word) ==
    [i \in 1..Len(env.indices) |->
        IF env.indices[i] < 0 THEN env.indices[i] + Len(word.phones)
                              ELSE env.indices[i]]

\* any(pattern.match(word, start=index)[0] is not None for index in indices)
RECURSIVE Global_any(_, _, _, _)
Global_any(pattern, word, indices, catixes) ==
    IF indices = <<>> THEN Val(FALSE)
    ELSE
    Bind(Pattern_match(pattern, word.phones, "start", Head(indices), catixes),
         LAMBDA r :
             IF IsRaise(r) THEN r
             ELSE IF r.st = "ok" THEN Val(TRUE)
             ELSE Global_any(pattern, word, Tail(indices), catixes))

\* GlobalEnvironment.match
GlobalEnvironment_match(env, word, match, catixes) ==
    Global_any(Pattern_resolve(env.pattern, Word_slice(word, match)), word,
               IF env.indices = <<>>
               THEN [i \in 1..Len(word.phones) |-> i - 1]
               ELSE Global_indices(env, word),
               catixes)

\* environment.match
Environment_match(env, word, match, catixes) ==
    CASE env.type = "Local" -> LocalEnvironment_match(env, word, match, catixes)
      [] env.type = "Adjacency" -> AdjacencyEnvironment_match(env, word, match, catixes)
      [] env.type = "Global" -> GlobalEnvironment_match(env, word, match, catixes)

\* LocalEnvironment.match_all and AdjacencyEnvironment.match_all: the
\* indices in range(len(word) + 1) where the environment matches
RECURSIVE match_all_loop(_, _, _, _, _, _)
match_all_loop(env, target, word, index, catixes, indices) ==
    IF index > Len(word.phones) THEN [st |-> "ok", indices |-> indices]
    ELSE
    Bind(IF env.type = "Local"
         THEN Local_match_at(Pattern_resolve(env.left, target),
                             Pattern_resolve(env.right, target),
                             word, index, index, catixes)
         ELSE Adjacency_match_at(Pattern_resolve(env.pattern, target),
                                 word, index, index, catixes),
         LAMBDA r :
             IF r.st # "ok" THEN r
             ELSE IF r.val
             THEN Bind(Append(indices, index),
                       LAMBDA appended :
                           match_all_loop(env, target, word, index + 1, catixes,
                                          appended))
             ELSE match_all_loop(env, target, word, index + 1, catixes, indices))

\* environment.match_all; GlobalEnvironment.match_all ignores its pattern
Environment_match_all(env, word, match, catixes) ==
    IF env.type = "Global"
    THEN [st |-> "ok",
          indices |-> IF env.indices = <<>>
                      THEN [i \in 1..(Len(word.phones) - 1) |-> i]
                      ELSE Global_indices(env, word)]
    ELSE match_all_loop(env, Word_slice(word, match), word, 0, catixes, <<>>)

\* all(environment.match(...) for environment in and_environments)
RECURSIVE all_environments(_, _, _, _)
all_environments(and_environments, word, match, catixes) ==
    IF and_environments = <<>> THEN Val(TRUE)
    ELSE
    Bind(Environment_match(Head(and_environments), word, match, catixes),
         LAMBDA r :
             IF r.st # "ok" THEN r
             ELSE IF ~r.val THEN Val(FALSE)
             ELSE all_environments(Tail(and_environments), word, match, catixes))

\* match_environments: any group all of whose environments match
RECURSIVE match_environments(_, _, _, _)
match_environments(environments, word, match, catixes) ==
    IF environments = <<>> THEN Val(FALSE)
    ELSE
    Bind(all_environments(Head(environments), word, match, catixes),
         LAMBDA r :
             IF r.st # "ok" THEN r
             ELSE IF r.val THEN Val(TRUE)
             ELSE match_environments(Tail(environments), word, match, catixes))

\* ------------------------------------------------------------------------
\* rules.py: predicates
\* ------------------------------------------------------------------------
SubstPredicate(replacements, conditions, exceptions) ==
    [type |-> "Subst", replacements |-> replacements,
     conditions |-> conditions, exceptions |-> exceptions]
CopyPredicate(destinations, conditions, exceptions) ==
    [type |-> "Copy", destinations |-> destinations,
     conditions |-> conditions, exceptions |-> exceptions]
MovePredicate(destinations, conditions, exceptions) ==
    [type |-> "Move", destinations |-> destinations,
     conditions |-> conditions, exceptions |-> exceptions]

\* Predicate.match with the conditions looked at before the exceptions
Predicate_match_conditions_first(predicate, word, match, catixes) ==
    Bind(match_environments(predicate.conditions, word, match, catixes),
         LAMBDA c :
             IF c.st # "ok" THEN c
             ELSE IF c.val \/ predicate.conditions = <<>> THEN Val(TRUE)
             ELSE Bind(match_environments(predicate.exceptions, word, match, catixes),
                       LAMBDA e :
                           IF e.st # "ok" THEN e ELSE Val(FALSE)))

\* Predicate.match
Predicate_match(predicate, word, match, catixes) ==
    Bind(match_environments(predicate.exceptions, word, match, catixes),
         LAMBDA e :
             IF e.st # "ok" THEN e
             ELSE IF e.val THEN Val(FALSE)
             ELSE Bind(match_environments(predicate.conditions, word, match, catixes),
                       LAMBDA c :
                           IF c.st # "ok" THEN c
                           ELSE IF c.val \/ predicate.conditions = <<>> THEN Val(TRUE)
                           ELSE Val(FALSE)))

\* a verify that accepts every contribution
Predicate_verify_always(predicate, old_length, new_length) == TRUE

\* Predicate.verify and MovePredicate.verify
Predicate_verify(predicate, old_length, new_length) ==
    IF predicate.type = "Move" THEN new_length > old_length + 1 ELSE TRUE

Change(match, replacement) == [match |-> match, replacement |-> replacement]

\* SubstPredicate.get_replacement
SubstPredicate_get_replacement(predicate, word, match, catixes, index) ==
    IF predicate.replacements = <<>> THEN Raise("ZeroDivisionError")
    ELSE
    LET replacement ==
            predicate.replacements[(index % Len(predicate.replacements)) + 1]
    IN  Pattern_as_phones(Pattern_resolve(replacement, Word_slice(word, match)),
                          Py(word.phones, match.start - 1), catixes)

\* the sorted list of a set of integers
RECURSIVE SortedSeq(_)
SortedSeq(S) ==
    IF S = {} THEN <<>>
    ELSE LET m == CHOOSE a \in S : \A c \in S : a <= c
         IN  <<m>> \o SortedSeq(S \ {m})

SeqToSet(seq) == {seq[i] : i \in 1..Len(seq)}

\* reduce(and_, map(set(match_all), group)) from the second environment on
RECURSIVE get_destinations_reduce(_, _, _, _, _)
get_destinations_reduce(group, word, match, catixes, acc) ==
    IF group = <<>> THEN [st |-> "ok", indices |-> SortedSeq(acc)]
    ELSE
    Bind(Environment_match_all(Head(group), word, match, catixes),
         LAMBDA r :
             IF r.st # "ok" THEN r
             ELSE get_destinations_reduce(Tail(group), word, match, catixes,
                                          acc \cap SeqToSet(r.indices)))

\* InsertPredicate.get_destinations
InsertPredicate_get_destinations(predicate, word, match, catixes, index) ==
    IF predicate.destinations = <<>> THEN Raise("ZeroDivisionError")
    ELSE
    LET group == predicate.destinations[(index % Len(predicate.destinations)) + 1]
    IN  IF group = <<>> THEN Raise("TypeError")
        ELSE
        Bind(Environment_match_all(Head(group), word, match, catixes),
             LAMBDA r :
                 IF r.st # "ok" THEN r
                 ELSE get_destinations_reduce(Tail(group), word, match, catixes,
                                              SeqToSet(r.indices)))

\* InsertPredicate.get_changes
InsertPredicate_get_changes(predicate, word, match, catixes, index) ==
    Bind(InsertPredicate_get_destinations(predicate, word, match, catixes, index),
         LAMBDA d :
             IF d.st # "ok" THEN d
             ELSE [st |-> "ok",
                   changes |-> [i \in 1..Len(d.indices) |->
                       Change(Slice(d.indices[i], d.indices[i]),
                              Word_slice(word, match))]])

\* predicate.get_changes
Predicate_get_changes(predicate, word, match, catixes, index) ==
    CASE predicate.type = "Subst" ->
            Bind(SubstPredicate_get_replacement(predicate, word, match, catixes, index),
                 LAMBDA r :
                     IF r.st # "ok" THEN r
                     ELSE [st |-> "ok", changes |-> <<Change(match, r.phones)>>])
      [] predicate.type = "Copy" ->
            InsertPredicate_get_changes(predicate, word, match, catixes, index)
      [] predicate.type = "Move" ->
            Bind(InsertPredicate_get_changes(predicate, word, match, catixes, index),
                 LAMBDA r :
                     IF r.st # "ok" THEN r
                     ELSE [st |-> "ok",
                           changes |-> <<Change(match, <<>>)>> \o r.changes])

\* ------------------------------------------------------------------------
\* rules.py: Flags, overlaps, Rule
\* ------------------------------------------------------------------------
Flags(ditto, stop, rtl, repeat, persist, chance) ==
    [ignore |-> 0, ditto |-> ditto, stop |-> stop, rtl |-> rtl,
     repeat |-> repeat, persist |-> persist, chance |-> chance]

DefaultFlags == Flags(0, 0, 0, 1, 1, 100)

Rule(targets, predicates, flags) ==
    [targets |-> targets, predicates |-> predicates, flags |-> flags]

\* an overlaps that takes two ranges of one start to overlap whether they
\* are empty or not
overlaps_at_same_start(match1, match2) ==
    \/ (match1.start < match2.start /\ match2.start < match1.stop)
    \/ (match2.start < match1.start /\ match1.start < match2.stop)
    \/ match1.start = match2.start

\* overlaps(match1, match2)
overlaps(match1, match2) ==
    \/ (match1.start < match2.start /\ match2.start < match1.stop)
    \/ (match2.start < match1.start /\ match1.start < match2.stop)
    \/ /\ match1.start = match2.start
       /\ (match1.start = match1.stop) = (match2.start = match2.stop)

\* list.sort(key=...) and sorted(key=...) are stable: an element comes
\* after the elements of smaller key and the earlier ones of equal key;
\* Before(a, b) says that a's key is strictly less than b's
StableSort(seq, Before(_, _)) ==
    LET rank(i) == Cardinality({j \in 1..Len(seq) :
                        \/ Before(seq[j], seq[i])
                        \/ (~Before(seq[i], seq[j]) /\ j < i)})
    IN  [k \in 1..Len(seq) |-> seq[CHOOSE i \in 1..Len(seq) : rank(i) = k - 1]]

\* (a1, a2) < (b1, b2) on tuples
PairLess(a1, a2, b1, b2) == a1 < b1 \/ (a1 = b1 /\ a2 < b2)

\* the loop of Rule._get_targets over enumerate(self.targets)
RECURSIVE get_targets_loop(_, _, _, _)
get_targets_loop(rule, word, index, targets) ==
    IF index >= Len(rule.targets) THEN [st |-> "ok", targets |-> targets]
    ELSE
    Bind(Target_match(rule.targets[index + 1], word),
         LAMBDA r :
             IF r.st # "ok" THEN r
             ELSE Bind(targets \o [i \in 1..Len(r.found) |->
                           [match |-> r.found[i].match,
                            catixes |-> r.found[i].catixes, index |-> index]],
                       LAMBDA extended :
                           get_targets_loop(rule, word, index + 1, extended)))

\* a _get_targets that sorts right-to-left by (-start, target index)
Rule__get_targets_by_start(rule, word) ==
    Bind(get_targets_loop(rule, word, 0, <<>>),
         LAMBDA r :
             IF r.st # "ok" THEN r
             ELSE IF r.targets = <<>> THEN Raise("NoTargetsFound")
             ELSE IF rule.flags.rtl # 0
             THEN [st |-> "ok", targets |-> StableSort(r.targets,
                      LAMBDA p, q : PairLess(0 - p.match.start, p.index,
                                             0 - q.match.start, q.index))]
             ELSE [st |-> "ok", targets |-> StableSort(r.targets,
                      LAMBDA p, q : PairLess(p.match.start, p.index,
                                             q.match.start, q.index))])

\* Rule._get_targets
Rule__get_targets(rule, word) ==
    Bind(get_targets_loop(rule, word, 0, <<>>),
         LAMBDA r :
             IF r.st # "ok" THEN r
             ELSE IF r.targets = <<>> THEN Raise("NoTargetsFound")
             ELSE IF rule.flags.rtl # 0
             THEN [st |-> "ok", targets |-> StableSort(r.targets,
                      LAMBDA p, q : PairLess(0 - p.match.stop, p.index,
                                             0 - q.match.stop, q.index))]
             ELSE [st |-> "ok", targets |-> StableSort(r.targets,
                      LAMBDA p, q : PairLess(p.match.start, p.index,
                                             q.match.start, q.index))])

\* the for/else over the predicates in Rule._validate_targets: the index of
\* the first predicate that accepts the target, NoPredicate if none does
NoPredicate == 0 - 1
\* a for/else that goes on after a predicate has accepted the target: the
\* index of the last predicate that accepts it
RECURSIVE last_predicate(_, _, _, _)
last_predicate(rule, word, target, pindex) ==
    IF pindex >= Len(rule.predicates) THEN [st |-> "ok", pindex |-> NoPredicate]
    ELSE
    Bind(Predicate_match(rule.predicates[pindex + 1], word,
                         target.match, target.catixes),
         LAMBDA r :
             IF r.st # "ok" THEN r
             ELSE Bind(last_predicate(rule, word, target, pindex + 1),
                       LAMBDA later :
                           IF later.st # "ok" THEN later
                           ELSE IF later.pindex = NoPredicate /\ r.val
                           THEN [st |-> "ok", pindex |-> pindex]
                           ELSE later))

RECURSIVE first_predicate(_, _, _, _)
first_predicate(rule, word, target, pindex) ==
    IF pindex >= Len(rule.predicates) THEN [st |-> "ok", pindex |-> NoPredicate]
    ELSE
    Bind(Predicate_match(rule.predicates[pindex + 1], word,
                         target.match, target.catixes),
         LAMBDA r :
             IF r.st # "ok" THEN r
             ELSE IF r.val THEN [st |-> "ok", pindex |-> pindex]
             ELSE first_predicate(rule, word, target, pindex + 1))

\* the loop of Rule._validate_targets over the targets
RECURSIVE validate_targets_loop(_, _, _, _, _)
validate_targets_loop(rule, word, targets, i, validated) ==
    IF i > Len(targets) THEN [st |-> "ok", validated |-> validated]
    ELSE IF validated # <<>>
            /\ overlaps(targets[i].match, validated[Len(validated)].match)
    THEN validate_targets_loop(rule, word, targets, i + 1, validated)
    ELSE
    Bind(first_predicate(rule, word, targets[i], 0),
         LAMBDA r :
             IF r.st # "ok" THEN r
             ELSE validate_targets_loop(rule, word, targets, i + 1,
                     IF r.pindex # NoPredicate
                     THEN Append(validated,
                             [match |-> targets[i].match,
                              catixes |-> targets[i].catixes,
                              index |-> targets[i].index, pindex |-> r.pindex])
                     ELSE validated))

\* Rule._validate_targets without the check that a target was validated
Rule__validate_targets_unchecked(rule, word, targets) ==
    validate_targets_loop(rule, word, targets, 1, <<>>)

\* Rule._validate_targets
Rule__validate_targets(rule, word, targets) ==
    Bind(validate_targets_loop(rule, word, targets, 1, <<>>),
         LAMBDA r :
             IF r.st # "ok" THEN r
             ELSE IF r.validated = <<>> THEN Raise("NoTargetsValidated")
             ELSE r)

\* queue_changes with the overlap check made against the changes of the
\* earlier targets only, not against those queued for the same target
queue_changes_of_earlier_targets(new, _changes) ==
    _changes \o SelectSeq(new, LAMBDA c :
                    ~\E i \in 1..Len(_changes) : overlaps(c.match, _changes[i].match))

\* the inner loop of Rule._get_changes: each change of one target is
\* appended to _changes unless it overlaps a change already in _changes
RECURSIVE queue_changes(_, _)
queue_changes(new, _changes) ==
    IF new = <<>> THEN _changes
    ELSE IF \E i \in 1..Len(_changes) : overlaps(Head(new).match, _changes[i].match)
    THEN queue_changes(Tail(new), _changes)
    ELSE Bind(Append(_changes, Head(new)),
              LAMBDA appended : queue_changes(Tail(new), appended))

\* the outer loop of Rule._get_changes over the validated targets
RECURSIVE get_changes_loop(_, _, _, _, _)
get_changes_loop(rule, word, targets, i, changes) ==
    IF i > Len(targets) THEN [st |-> "ok", changes |-> changes]
    ELSE
    LET t == targets[i]
        predicate == rule.predicates[t.pindex + 1]
    IN  Bind(Predicate_get_changes(predicate, word, t.match, t.catixes, t.index),
             LAMBDA r :
                 IF r.st # "ok" THEN r
                 ELSE Bind(queue_changes(r.changes, changes),
                           LAMBDA _changes :
                               IF Predicate_verify(predicate, Len(changes),
                                                   Len(_changes))
                               THEN get_changes_loop(rule, word, targets, i + 1,
                                                     _changes)
                               ELSE get_changes_loop(rule, word, targets, i + 1,
                                                     changes)))

\* Rule._get_changes
Rule__get_changes(rule, word, targets) ==
    get_changes_loop(rule, word, targets, 1, <<>>)

\* sorted(changes, key=lambda c: (-c[0].stop, -c[0].start))
sorted_changes(changes) ==
    StableSort(changes,
        LAMBDA c, d : PairLess(0 - c.match.stop, 0 - c.match.start,
                               0 - d.match.stop, 0 - d.match.start))

\* ------------------------------------------------------------------------
\* Word objects.  A heap is the sequence of the Word objects created so far
\* and a reference is a position in it: Word.replace creates an object and
\* returns the reference to it.
\* ------------------------------------------------------------------------
Obj(heap, ref) == [heap |-> heap, ref |-> ref]

\* Word.replace changing the object it is called on, and returning it
Word_replace_in_place(heap, self, match, replacement) ==
    Obj([heap EXCEPT ![self] = Word_replace(heap[self], match, replacement)], self)

\* Word.replace
Word_replace_obj(heap, self, match, replacement) ==
    Obj(Append(heap, Word_replace(heap[self], match, replacement)), Len(heap) + 1)

\* the loop of Rule._apply_changes over the sorted changes
RECURSIVE apply_changes_loop(_, _, _)
apply_changes_loop(heap, word, todo) ==
    IF todo = <<>> THEN Obj(heap, word)
    ELSE
    Bind(Word_replace_obj(heap, word, Head(todo).match, Head(todo).replacement),
         LAMBDA o : apply_changes_loop(o.heap, o.ref, Tail(todo)))

\* Rule._apply_changes
Rule__apply_changes(heap, word, changes) ==
    apply_changes_loop(heap, word, sorted_changes(changes))

\* Rule._apply: [st, heap, ref], or the exception raised
Rule__apply(rule, heap, word) ==
    Bind(Rule__get_targets(rule, heap[word]),
      LAMBDA t :
        IF t.st # "ok" THEN t
        ELSE Bind(Rule__validate_targets(rule, heap[word], t.targets),
          LAMBDA v :
            IF v.st # "ok" THEN v
            ELSE Bind(Rule__get_changes(rule, heap[word], v.validated),
              LAMBDA c :
                IF c.st # "ok" THEN c
                ELSE Bind(Rule__apply_changes(heap, word, c.changes),
                  LAMBDA o : [st |-> "ok", heap |-> o.heap, ref |-> o.ref]))))

\* the repeat loop of BaseRule.__call__ with `todo` iterations left
RECURSIVE call_loop(_, _, _, _)
call_loop(rule, heap, word, todo) ==
    IF todo <= 0 THEN [st |-> "ok", heap |-> heap, ref |-> word]
    ELSE
    Bind(Rule__apply(rule, heap, word),
         LAMBDA r :
             IF r.st # "ok" THEN r
             ELSE IF r.heap[r.ref] = heap[word] THEN r
             ELSE call_loop(rule, r.heap, r.ref, todo - 1))

\* BaseRule.__call__ when randint(1, 100) returns roll
BaseRule_call(rule, heap, word, roll) ==
    IF roll <= rule.flags.chance
    THEN call_loop(rule, heap, word, rule.flags.repeat)
    ELSE Raise("RuleRandomlySkipped")

\* the value of rule(word) for a word value: [st, word], or the exception
Rule_call_value(rule, w, roll) ==
    Bind(BaseRule_call(rule, <<w>>, 1, roll),
         LAMBDA r : IF r.st = "ok" THEN [st |-> "ok", word |-> r.heap[r.ref]] ELSE r)

\* RuleDidNotApply and its subclasses
RuleDidNotApply == {"RuleDidNotApply", "RuleRandomlySkipped",
                    "NoTargetsFound", "NoTargetsValidated"}

\* ------------------------------------------------------------------------
\* words.py: parse, unparse, startswith and Word.parse.  A string is a
\* sequence of characters, an inventory a sequence of strings.
\* ------------------------------------------------------------------------
\* str.lstrip(chars): the string without its leading characters that occur
\* in chars
RECURSIVE lstrip(_, _)
lstrip(string, chars) ==
    IF string # <<>> /\ Head(string) \in SeqToSet(chars)
    THEN lstrip(Tail(string), chars)
    ELSE string

\* all(sc == '*' or pc == '*' or sc == pc for sc, pc in zip(string, prefix))
matches_zip(string, prefix) ==
    \A i \in 1..Min(Len(string), Len(prefix)) :
        string[i] = "*" \/ prefix[i] = "*" \/ string[i] = prefix[i]

\* startswith(string, prefix, strict=strict)
startswith(string, prefix, strict) ==
    IF Len(prefix) > Len(string) THEN FALSE
    ELSE IF strict /\ Len(prefix) = Len(string) THEN FALSE
    ELSE IF "*" \notin SeqToSet(prefix) /\ "*" \notin SeqToSet(string)
    THEN SubSeq(string, 1, Len(prefix)) = prefix
    ELSE matches_zip(string, prefix)

\* a parse that takes the entries in the order of the inventory
sorted_graphs_unsorted(graphemes) ==
    SelectSeq(graphemes, LAMBDA g : g # <<>>)

\* sorted(filter(len, graphemes), key=len, reverse=True): the entries that
\* are not empty, the longer first, entries of one length in their order
sorted_graphs(graphemes) ==
    StableSort(SelectSeq(graphemes, LAMBDA g : g # <<>>),
               LAMBDA g, h : Len(g) > Len(h))

\* next(filter(lambda g: startswith(string, g), graphs), None): the
\* position of the first entry the string starts with, 0 for None
first_graph(string, graphs) ==
    IF \E i \in 1..Len(graphs) : startswith(string, graphs[i], FALSE)
    THEN CHOOSE i \in 1..Len(graphs) :
             /\ startswith(string, graphs[i], FALSE)
             /\ \A j \in 1..(i - 1) : ~startswith(string, graphs[j], FALSE)
    ELSE 0

\* the while loop of parse: `string` is what is left, `word` the phones
\* found so far
RECURSIVE parse_loop(_, _, _, _)
parse_loop(string, graphs, separator, word) ==
    IF string = <<>> THEN [st |-> "ok", phones |-> word]
    ELSE
    LET g == first_graph(string, graphs)
    IN  IF g = 0 THEN Raise("InvalidCharacter")
        ELSE LET graph == SubSeq(string, 1, Len(graphs[g]))
             IN  parse_loop(lstrip(SubSeq(string, Len(graph) + 1, Len(string)),
                                   separator),
                            graphs, separator, Append(word, graph))

\* parse(string, graphemes, separator)
parse(string, graphemes, separator) ==
    parse_loop(lstrip(string, separator), sorted_graphs(graphemes), separator, <<>>)

\* ''.join(phones)
join(phones) == Concat(phones)

\* the first inner loop of unparse: some tail of ambig starts with an entry
\* longer than the first phone of that tail
needs_separator(ambig, graphemes) ==
    \E i \in 1..Len(ambig) :
        \E k \in 1..Len(graphemes) :
            /\ startswith(join(SubSeq(ambig, i, Len(ambig))), graphemes[k], FALSE)
            /\ Len(graphemes[k]) > Len(ambig[i])

\* some entry starts with the string and is longer
prefix_of_entry(string, graphemes) ==
    \E k \in 1..Len(graphemes) : startswith(graphemes[k], string, TRUE)

\* the second inner loop of unparse, a for/else: the longest tail of ambig
\* that is the beginning of a longer entry, or the empty list
keep_ambiguous(ambig, graphemes) ==
    IF \E i \in 1..Len(ambig) :
           prefix_of_entry(join(SubSeq(ambig, i, Len(ambig))), graphemes)
    THEN LET i == CHOOSE i \in 1..Len(ambig) :
                      /\ prefix_of_entry(join(SubSeq(ambig, i, Len(ambig))), graphemes)
                      /\ \A j \in 1..(i - 1) :
                            ~prefix_of_entry(join(SubSeq(ambig, j, Len(ambig))),
                                             graphemes)
         IN  SubSeq(ambig, i, Len(ambig))
    ELSE <<>>

\* an unparse that puts the separator between every two phones
RECURSIVE unparse_loop_separating(_, _, _, _, _, _)
unparse_loop_separating(word, k, graphemes, separator, string, ambig) ==
    IF k > Len(word) THEN string
    ELSE unparse_loop_separating(word, k + 1, graphemes, separator,
             (IF k > 1 THEN string \o separator ELSE string) \o word[k], ambig)

\* the loop of unparse over the phones from position k on
RECURSIVE unparse_loop(_, _, _, _, _, _)
unparse_loop(word, k, graphemes, separator, string, ambig) ==
    IF k > Len(word) THEN string
    ELSE
    LET graph == word[k]
    IN  IF ambig # <<>>
        THEN LET appended == Append(ambig, graph)
                 cut == needs_separator(appended, graphemes)
             IN  unparse_loop(word, k + 1, graphemes, separator,
                     (IF cut THEN string \o separator ELSE string) \o graph,
                     keep_ambiguous(IF cut THEN <<graph>> ELSE appended, graphemes))
        ELSE unparse_loop(word, k + 1, graphemes, separator, string \o graph,
                 IF prefix_of_entry(graph, graphemes) THEN <<graph>> ELSE <<>>)

\* unparse(word, graphemes, separator)
unparse(word, graphemes, separator) ==
    IF \A k \in 1..Len(graphemes) : Len(graphemes[k]) <= 1
    THEN join(word)
    ELSE unparse_loop(word, 1, graphemes, separator, <<>>, <<>>)

\* the characters that \s matches in a pattern that is a str, the 29
\* whitespace characters of Unicode.  The first thirteen are written as
\* themselves: U+0009 to U+000D, U+001C to U+001F, the blank, U+0085,
\* U+00A0 and U+1680.  The sixteen others, U+2000 to U+200A, U+2028,
\* U+2029, U+202F, U+205F and U+3000, which a string of TLA+ cannot hold,
\* are written as their escapes.
Whitespace ==
    {"\t", "\n", "", "\f", "\r",
     "", "", "", "", " ",
     "", " ", " "}
    \cup {"\\u2000", "\\u2001", "\\u2002", "\\u2003",
          "\\u2004", "\\u2005", "\\u2006", "\\u2007",
          "\\u2008", "\\u2009", "\\u200a", "\\u2028",
          "\\u2029", "\\u202f", "\\u205f", "\\u3000"}

\* re.sub(r'\s+', '#', string): each maximal run of whitespace becomes one #
RECURSIVE sub_whitespace(_)
sub_whitespace(string) ==
    IF string = <<>> THEN <<>>
    ELSE IF Head(string) \notin Whitespace
    THEN <<Head(string)>> \o sub_whitespace(Tail(string))
    ELSE IF Tail(string) # <<>> /\ Head(Tail(string)) \in Whitespace
    THEN sub_whitespace(Tail(string))
    ELSE <<"#">> \o sub_whitespace(Tail(string))

\* Word.parse(string, graphemes, separator): the Word, or the exception of
\* parse
Word_parse(string, graphemes, separator) ==
    Bind(parse(sub_whitespace(<<" ">> \o string \o <<" ">>), graphemes, separator),
         LAMBDA r :
             IF r.st # "ok" THEN r
             ELSE [st |-> "ok",
                   word |-> Word(r.phones, Append(graphemes, <<"#">>), separator)])

\* ------------------------------------------------------------------------
\* The inputs of the model
\* ------------------------------------------------------------------------
\* words have at most MaxWordLen phones between their two # boundaries
MaxWordLen == 3
\* the repeat flag of a rule ranges over 0..MaxRepeat
MaxRepeat == 2

pA == <<"a">>
pB == <<"b">>
pC == <<"c">>
pHash == <<"#">>

RECURSIVE SeqsUpTo(_, _)
SeqsUpTo(S, n) ==
    IF n = 0 THEN {<<>>}
    ELSE LET shorter == SeqsUpTo(S, n - 1)
         IN  shorter \cup {Append(s, e) : s \in shorter, e \in S}

\* Word.parse of a string over a, b: framed by #, inventory ('*', '#'); the
\* two blanks around the empty string are one run of whitespace, one #
ParsedWord(interior) ==
    Word(IF interior = <<>> THEN <<pHash>>
         ELSE <<pHash>> \o interior \o <<pHash>>,
         <<<<"*">>, pHash>>, <<>>)

Words == {ParsedWord(s) : s \in SeqsUpTo({pA, pB}, MaxWordLen)}

CatAB == <<pA, pB>>
CatBC == <<pB, pC>>

\* the target lists of the rules: a; aa; the empty pattern; [a,b] with
\* subscript 1; the two targets a and ab; the last b
TargetLists ==
    { <<Target(<<Grapheme(pA)>>, <<>>)>>,
      <<Target(<<Grapheme(pA), Grapheme(pA)>>, <<>>)>>,
      <<Target(<<>>, <<>>)>>,
      <<Target(<<Category(CatAB, 1)>>, <<>>)>>,
      <<Target(<<Grapheme(pA)>>, <<>>), Target(<<Grapheme(pA), Grapheme(pB)>>, <<>>)>>,
      <<Target(<<Grapheme(pB)>>, <<0 - 1>>)>> }

EverywhereEnv == GlobalEnvironment(<<>>, <<>>)

\* the predicate lists of the rules
PredicateLists ==
    { \* > c
      <<SubstPredicate(<<<<Grapheme(pC)>>>>, <<>>, <<>>)>>,
      \* > (nothing)
      <<SubstPredicate(<<<<>>>>, <<>>, <<>>)>>,
      \* > [b,c] with subscript 1 / #_
      <<SubstPredicate(<<<<Category(CatBC, 1)>>>>,
                       <<<<LocalEnvironment(<<Grapheme(pHash)>>, <<>>)>>>>, <<>>)>>,
      \* > b ! _b
      <<SubstPredicate(<<<<Grapheme(pB)>>>>, <<>>,
                       <<<<LocalEnvironment(<<>>, <<Grapheme(pB)>>)>>>>)>>,
      \* > c / _#  > ab (one phone of two characters)
      <<SubstPredicate(<<<<Grapheme(pC)>>>>,
                       <<<<LocalEnvironment(<<>>, <<Grapheme(pHash)>>)>>>>, <<>>),
        SubstPredicate(<<<<Grapheme(<<"a", "b">>)>>>>, <<>>, <<>>)>>,
      \* > c with the environments a rule text without / and ! parses to
      <<SubstPredicate(<<<<Grapheme(pC)>>>>, <<<<>>>>, <<<<>>>>)>>,
      \* >> everywhere
      <<CopyPredicate(<<<<EverywhereEnv>>>>, <<>>, <<>>)>>,
      \* >> b_
      <<CopyPredicate(<<<<LocalEnvironment(<<Grapheme(pB)>>, <<>>)>>>>, <<>>, <<>>)>>,
      \* >> @-6|3
      <<CopyPredicate(<<<<GlobalEnvironment(<<>>, <<0 - 6, 3>>)>>>>, <<>>, <<>>)>>,
      \* -> everywhere
      <<MovePredicate(<<<<EverywhereEnv>>>>, <<>>, <<>>)>>,
      \* -> _#
      <<MovePredicate(<<<<LocalEnvironment(<<>>, <<Grapheme(pHash)>>)>>>>, <<>>, <<>>)>>,
      \* -> _b
      <<MovePredicate(<<<<LocalEnvironment(<<>>, <<Grapheme(pB)>>)>>>>, <<>>, <<>>)>> }

\* the category V = [a, e, i, o, u]
CatV == << <<"a">>, <<"e">>, <<"i">>, <<"o">>, <<"u">> >>

\* the rule [V]1 > [V]1 / _[V]1, the three references with subscript 1
VowelRule ==
    Rule(<<Target(<<Category(CatV, 1)>>, <<>>)>>,
         <<SubstPredicate(<<<<Category(CatV, 1)>>>>,
                          <<<<LocalEnvironment(<<>>, <<Category(CatV, 1)>>)>>>>,
                          <<>>)>>,
         DefaultFlags)

\* the words the vowel rule is called on: m, a and e in every order
VowelWords == {ParsedWord(s) : s \in SeqsUpTo({<<"m">>, pA, <<"e">>}, MaxWordLen)}

\* the flags of a rule called on its own: ditto, stop and persist are read
\* by blocks only
RuleFlags ==
    {Flags(0, 0, rtl, repeat, 1, 100) : rtl \in {0, 1}, repeat \in 0..MaxRepeat}
        \cup {Flags(0, 0, 0, 1, 1, 50)}

\* a rule that copies makes the word longer each time it is applied: such
\* rules are called with repeat at most 1, which keeps the words short
Copies(ps) == \E i \in 1..Len(ps) : ps[i].type = "Copy"

\* rules of their own, as pairs of a target list and a predicate list
ParticularRules ==
    { \* (a)b > c
      << <<Target(<<Optional(<<Grapheme(pA)>>, TRUE), Grapheme(pB)>>, <<>>)>>,
         <<SubstPredicate(<<<<Grapheme(pC)>>>>, <<>>, <<>>)>> >>,
      \* ab, (the empty pattern) > c
      << <<Target(<<Grapheme(pA), Grapheme(pB)>>, <<>>), Target(<<>>, <<>>)>>,
         <<SubstPredicate(<<<<Grapheme(pC)>>>>, <<>>, <<>>)>> >>,
      \* ab, (the empty pattern) -> everywhere, _b: the first target goes
      \* everywhere, the second before b
      << <<Target(<<Grapheme(pA), Grapheme(pB)>>, <<>>), Target(<<>>, <<>>)>>,
         <<MovePredicate(<<<<EverywhereEnv>>,
                           <<LocalEnvironment(<<>>, <<Grapheme(pB)>>)>>>>,
                         <<>>, <<>>)>> >>,
      \* a, b -> _b, _#: the first target goes before b, the second
      \* before each #
      << <<Target(<<Grapheme(pA)>>, <<>>), Target(<<Grapheme(pB)>>, <<>>)>>,
         <<MovePredicate(<<<<LocalEnvironment(<<>>, <<Grapheme(pB)>>)>>,
                           <<LocalEnvironment(<<>>, <<Grapheme(pHash)>>)>>>>,
                         <<>>, <<>>)>> >>,
      \* a@-1|2|-4|4, (the empty pattern) > c
      << <<Target(<<Grapheme(pA)>>, <<0 - 1, 1, 0 - 4, 3>>), Target(<<>>, <<>>)>>,
         <<SubstPredicate(<<<<Grapheme(pC)>>>>, <<>>, <<>>)>> >>,
      \* a > c / #_  > b / _#
      << <<Target(<<Grapheme(pA)>>, <<>>)>>,
         <<SubstPredicate(<<<<Grapheme(pC)>>>>,
                          <<<<LocalEnvironment(<<Grapheme(pHash)>>, <<>>)>>>>, <<>>),
           SubstPredicate(<<<<Grapheme(pB)>>>>,
                          <<<<LocalEnvironment(<<>>, <<Grapheme(pHash)>>)>>>>, <<>>)>> >>,
      \* aa > << (the target reversed, twice)
      << <<Target(<<Grapheme(pA), Grapheme(pA)>>, <<>>)>>,
         <<SubstPredicate(<<<<TargetRef(0 - 1), TargetRef(0 - 1)>>>>, <<>>, <<>>)>> >>,
      \* ab > <<
      << <<Target(<<Grapheme(pA), Grapheme(pB)>>, <<>>)>>,
         <<SubstPredicate(<<<<TargetRef(0 - 1), TargetRef(0 - 1)>>>>, <<>>, <<>>)>> >> }

\* the rules called: every target list with every predicate list and every
\* setting of the flags, and the rules of their own applied at most once
Rules ==
    {r \in {Rule(ts, ps, f) : ts \in TargetLists, ps \in PredicateLists,
                               f \in RuleFlags} :
        Copies(r.predicates) => r.flags.repeat <= 1}
    \cup {Rule(p[1], p[2], f) : p \in ParticularRules,
                                f \in {g \in RuleFlags : g.repeat <= 1}}

\* what randint(1, 100) may return
Rolls == {1, 100}

\* ------------------------------------------------------------------------
\* rules.py: RuleBlock
\* ------------------------------------------------------------------------
\* a ^ b on booleans
Xor(a, b) == a # b

\* the ditto gate with the two settings of the flag exchanged
ditto_gate_exchanged(flags, applied) ==
    flags.ditto = 0 \/ Xor(flags.ditto = 1, applied)

\* `not flags.ditto or (flags.ditto != 1) ^ applied`
ditto_gate(flags, applied) ==
    flags.ditto = 0 \/ Xor(flags.ditto # 1, applied)

\* `flags.stop and (flags.stop != 1) ^ applied`
stop_gate(flags, applied) ==
    flags.stop # 0 /\ Xor(flags.stop # 1, applied)

\* the replacement fields of the class attribute `message` of an exception:
\* '{str(rule)!r} does not apply to {str(word)!r}' for RuleDidNotApply,
\* inherited by NoTargetsFound and NoTargetsValidated, and
\* '{str(self)!r} was randomly not run on {str(word)!r}'
message_fields(e) ==
    IF e = "RuleRandomlySkipped" THEN {"str(self)", "str(word)"}
                                 ELSE {"str(rule)", "str(word)"}

\* str.format(**kwargs): a replacement field is looked up by its whole name
\* among the keyword arguments; a missing name raises KeyError
str_format(fields, kwargs) ==
    IF fields \subseteq kwargs THEN [st |-> "ok"] ELSE Raise("KeyError")

\* the handler `except RuleDidNotApply as e` of RuleBlock._apply:
\* logger.debug(e.message.format(rule=rule, word=word)); applied = False
handle_RuleDidNotApply(e) ==
    Bind(str_format(message_fields(e), {"rule", "word"}),
         LAMBDA m : IF m.st # "ok" THEN m ELSE [st |-> "ok", applied |-> FALSE])

\* the body of the inner loop of RuleBlock._apply for one rule that passed
\* the ditto gate: [st, word, applied, outcome], where st is "next" (the
\* loop goes on), "BlockStopped" or the exception that leaves the block;
\* when an exception leaves the block no assignment to `applied` was
\* reached and the local keeps the value it had
run_member(member, w, applied, roll) ==
    Bind(Rule_call_value(member, w, roll),
      LAMBDA r :
        IF r.st = "ok"
        THEN [st |-> IF stop_gate(member.flags, TRUE) THEN "BlockStopped" ELSE "next",
              word |-> r.word, applied |-> TRUE, outcome |-> "applied"]
        ELSE IF r.st \in RuleDidNotApply
        THEN Bind(handle_RuleDidNotApply(r.st),
               LAMBDA h :
                 IF h.st # "ok"
                 THEN [st |-> h.st, word |-> w, applied |-> applied,
                       outcome |-> "not applied"]
                 ELSE [st |-> IF stop_gate(member.flags, h.applied)
                              THEN "BlockStopped" ELSE "next",
                       word |-> w, applied |-> h.applied, outcome |-> "not applied"])
        ELSE [st |-> r.st, word |-> w, applied |-> applied, outcome |-> "error"])

\* the three statements after the inner loop: rules.append(cur_rule),
\* values.append(cur_rule.flags.persist), and
\* rules, values = zip(*[(r, v-1) for r, v in zip(rules, values) if v > 1]).
\* `kind` says whether `rules` is still the list it began as or the tuple
\* zip made of it: a tuple has no append, and unpacking zip() of no pairs
\* into two names fails, after the two appends have been made
bookkeep(rules, values, kind, cur_rule) ==
    IF kind = "tuple"
    THEN [st |-> "AttributeError", rules |-> rules, values |-> values, kind |-> kind]
    ELSE
    LET rs == Append(rules, cur_rule)
        vs == Append(values, cur_rule.flags.persist)
        kept == SelectSeq([i \in 1..Len(rs) |-> i], LAMBDA i : vs[i] > 1)
    IN  IF kept = <<>>
        THEN [st |-> "ValueError", rules |-> rs, values |-> vs, kind |-> kind]
        ELSE [st |-> "ok",
              rules |-> [k \in 1..Len(kept) |-> rs[kept[k]]],
              values |-> [k \in 1..Len(kept) |-> vs[kept[k]] - 1],
              kind |-> "tuple"]

\* ------------------------------------------------------------------------
\* The inputs of the blocks
\* ------------------------------------------------------------------------
\* a block has at most MaxBlockLen member rules
MaxBlockLen == 2
\* the persist flag of a member rule ranges over 1..MaxPersist
MaxPersist == 2

\* the flags of a member rule: the five settings of (ditto, stop) with one
\* of them set at most, every persist, and a rule that is skipped at random
MemberFlags ==
    {Flags(ds[1], ds[2], 0, 1, persist, 100) :
        ds \in {<<0, 0>>, <<1, 0>>, <<0 - 1, 0>>, <<0, 1>>, <<0, 0 - 1>>},
        persist \in 1..MaxPersist}
        \cup {Flags(0, 0, 0, 1, 1, 50)}

\* a > b and b > c
TargetsA == <<Target(<<Grapheme(pA)>>, <<>>)>>
TargetsB == <<Target(<<Grapheme(pB)>>, <<>>)>>
ToB == <<SubstPredicate(<<<<Grapheme(pB)>>>>, <<>>, <<>>)>>
ToC == <<SubstPredicate(<<<<Grapheme(pC)>>>>, <<>>, <<>>)>>

\* a > a, which applies and leaves the phones as they are
ToA == <<SubstPredicate(<<<<Grapheme(pA)>>>>, <<>>, <<>>)>>

\* the member rules: a > b and b > c with every setting of the flags, a > a,
\* and a > b with repeat 0, which returns its argument
Members ==
    {Rule(TargetsA, ToB, f) : f \in MemberFlags}
        \cup {Rule(TargetsB, ToC, f) : f \in MemberFlags}
        \cup {Rule(TargetsA, ToA, Flags(0, 0, 0, 1, MaxPersist, 100)),
              Rule(TargetsA, ToB, Flags(0, 0, 0, 0, MaxPersist, 100))}

Blocks == SeqsUpTo(Members, MaxBlockLen)

BlockWords == {ParsedWord(<<pA>>), ParsedWord(<<pA, pB>>)}

\* ------------------------------------------------------------------------
\* The inputs of Predicate.match
\* ------------------------------------------------------------------------
\* the environment groups of a predicate: none; a group / _b; a group
\* / a_; the two groups / _b and / a_; the group / a_b of two environments;
\* and the empty group that a rule text without environments parses to
EnvBefore == LocalEnvironment(<<>>, <<Grapheme(pB)>>)
EnvAfter == LocalEnvironment(<<Grapheme(pA)>>, <<>>)
\* Predicate._parse_environments for a clause that the rule text does not
\* have: `exceptions = [[]]` without '!', `conditions = [[]]` without '/'
ParsedWithoutClause == <<<<>>>>

EnvLists ==
    { <<>>,
      <<<<EnvBefore>>>>,
      <<<<EnvAfter>>>>,
      <<<<EnvBefore>>, <<EnvAfter>>>>,
      <<<<EnvAfter, EnvBefore>>>>,
      ParsedWithoutClause }

Predicates == {SubstPredicate(<<<<Grapheme(pC)>>>>, conditions, exceptions) :
                  conditions \in EnvLists, exceptions \in EnvLists}

\* the one-phone slices of a word between its boundaries
Matches(w) == {Slice(i, i + 1) : i \in 1..(Len(w.phones) - 2)}

\* ------------------------------------------------------------------------
\* State.  Five programs are modelled, each with its own variables: the
\* call rule(word) of a Rule, RuleBlock._apply, Predicate.match,
\* Pattern.match, and the parsing and unparsing of a string.  A
\* specification runs one of them and leaves the others idle.
\* ------------------------------------------------------------------------
VARIABLES
    \* the call rule(word)
    rule,       \* the Rule being called
    heap,       \* the Word objects; heap[1] is the argument of the call
    word,       \* the local `word` of __call__ and _apply: a reference
    wordin,     \* the local `wordin` of __call__: the input of this _apply
    pc,         \* where the call is
    iter,       \* iterations of the repeat loop begun
    targets,    \* local of _apply
    validated,  \* local of _apply
    changes,    \* local of _apply
    exc,        \* the exception that left the call, "none" if none
    produced,   \* the Word objects the completed _apply calls returned
    \* RuleBlock._apply(word)
    block,      \* self.rules
    binput,     \* the argument `word`
    bword,      \* the local `word`
    applied,    \* the local `applied`
    brules,     \* the local `rules`
    bvalues,    \* the local `values`
    bkind,      \* whether `rules` is a list or a tuple
    cur,        \* the position of cur_rule in self.rules, 0 before the loop
    queue,      \* what is left of (cur_rule, *rules) in the inner loop
    bpc,        \* where _apply is
    bexc,       \* the exception that left _apply, "none" if none
    log,        \* the rules the inner loop has reached, and what became of them
    \* Predicate.match(word, match, catixes)
    predicate,  \* self
    pword,      \* the argument `word`
    pmatch,     \* the argument `match`
    ppc,        \* where the call is
    verdict,    \* what the call returned
    \* Pattern.match(word, start, stop, catixes)
    mpattern,   \* self.elements
    mword,      \* the argument `word`: its phones
    mdir,       \* which of start and stop is given
    mpos,       \* the value of that anchor
    mcatixes,   \* the argument `catixes`
    mpc,        \* where the call is
    mresult,    \* what the call returned, or the exception that left it
    mstack,     \* the activations of WildcardMixin.match_pattern in progress
    mret,       \* what the last activation returned or raised
    \* words.parse, words.unparse and Word.parse on one string
    sstring,    \* the argument `string`
    sgraphemes, \* the argument `graphemes`
    sseparator, \* the argument `separator`
    spc,        \* which call is next
    sparsed,    \* what parse(string, graphemes, separator) returned
    sunparsed,  \* what unparse(parsed, graphemes, separator) returned
    sword       \* what Word.parse(string, graphemes, separator) returned

rulevars == <<rule, heap, word, wordin, pc, iter, targets, validated, changes,
              exc, produced>>
blockvars == <<block, binput, bword, applied, brules, bvalues, bkind, cur,
               queue, bpc, bexc, log>>
predicatevars == <<predicate, pword, pmatch, ppc, verdict>>
matchvars == <<mpattern, mword, mdir, mpos, mcatixes, mpc, mresult, mstack,
               mret>>
wordsvars == <<sstring, sgraphemes, sseparator, spc, sparsed, sunparsed, sword>>
vars == <<rulevars, blockvars, predicatevars, matchvars, wordsvars>>

NoWord == Word(<<>>, <<>>, <<>>)
NoRule == Rule(<<>>, <<>>, DefaultFlags)

RuleIdle ==
    /\ rule = NoRule
    /\ heap = <<>>
    /\ word = 0
    /\ wordin = 0
    /\ pc = "idle"
    /\ iter = 0
    /\ targets = <<>>
    /\ validated = <<>>
    /\ changes = <<>>
    /\ exc = "none"
    /\ produced = <<>>

BlockIdle ==
    /\ block = <<>>
    /\ binput = NoWord
    /\ bword = NoWord
    /\ applied = FALSE
    /\ brules = <<>>
    /\ bvalues = <<>>
    /\ bkind = "list"
    /\ cur = 0
    /\ queue = <<>>
    /\ bpc = "idle"
    /\ bexc = "none"
    /\ log = <<>>

PredicateIdle ==
    /\ predicate = SubstPredicate(<<>>, <<>>, <<>>)
    /\ pword = NoWord
    /\ pmatch = Slice(0, 0)
    /\ ppc = "idle"
    /\ verdict = Val(FALSE)

MatchIdle ==
    /\ mpattern = <<>>
    /\ mword = <<>>
    /\ mdir = "start"
    /\ mpos = 0
    /\ mcatixes = EmptyCatixes
    /\ mpc = "idle"
    /\ mresult = Raise("none")
    /\ mstack = <<>>
    /\ mret = Raise("none")

WordsIdle ==
    /\ sstring = <<>>
    /\ sgraphemes = <<>>
    /\ sseparator = <<>>
    /\ spc = "idle"
    /\ sparsed = Raise("none")
    /\ sunparsed = <<>>
    /\ sword = Raise("none")

\* ------------------------------------------------------------------------
\* The call rule(word) of a Rule: BaseRule.__call__ around Rule._apply
\* ------------------------------------------------------------------------
Init ==
    /\ \/ /\ rule \in Rules
          /\ \E w \in Words : heap = <<w>>
       \/ /\ rule = VowelRule
          /\ \E w \in VowelWords : heap = <<w>>
    /\ word = 1
    /\ wordin = 1
    /\ pc = "call"
    /\ iter = 0
    /\ targets = <<>>
    /\ validated = <<>>
    /\ changes = <<>>
    /\ exc = "none"
    /\ produced = <<>>
    /\ BlockIdle
    /\ PredicateIdle
    /\ MatchIdle
    /\ WordsIdle

RaiseFrom(e) ==
    /\ pc' = "raised"
    /\ exc' = e

\* the for statement of __call__: the next iteration, which begins with
\* wordin = word, or `return word`
ForRepeat(done) ==
    IF done < rule.flags.repeat
    THEN /\ pc' = "get_targets"
         /\ iter' = done + 1
         /\ wordin' = word
    ELSE /\ pc' = "returned"
         /\ iter' = done
         /\ wordin' = wordin

\* BaseRule.__call__ up to the first iteration: the chance roll
Call ==
    /\ pc = "call"
    /\ \E roll \in Rolls :
          IF roll <= rule.flags.chance
          THEN /\ ForRepeat(0)
               /\ exc' = exc
          ELSE /\ RaiseFrom("RuleRandomlySkipped")
               /\ iter' = iter
               /\ wordin' = wordin
    /\ UNCHANGED <<rule, heap, word, targets, validated, changes, produced>>
    /\ UNCHANGED <<blockvars, predicatevars, matchvars, wordsvars>>

\* targets = self._get_targets(word)
GetTargets ==
    /\ pc = "get_targets"
    /\ \E r \in {Rule__get_targets(rule, heap[word])} :
           IF r.st = "ok"
           THEN /\ targets' = r.targets
                /\ pc' = "validate_targets"
                /\ exc' = exc
           ELSE /\ RaiseFrom(r.st)
                /\ targets' = <<>>
    /\ UNCHANGED <<rule, heap, word, wordin, iter, validated, changes, produced>>
    /\ UNCHANGED <<blockvars, predicatevars, matchvars, wordsvars>>

\* validated = self._validate_targets(word, targets)
ValidateTargets ==
    /\ pc = "validate_targets"
    /\ \E r \in {Rule__validate_targets(rule, heap[word], targets)} :
           IF r.st = "ok"
           THEN /\ validated' = r.validated
                /\ pc' = "get_changes"
                /\ exc' = exc
           ELSE /\ RaiseFrom(r.st)
                /\ validated' = <<>>
    /\ UNCHANGED <<rule, heap, word, wordin, iter, targets, changes, produced>>
    /\ UNCHANGED <<blockvars, predicatevars, matchvars, wordsvars>>

\* changes = self._get_changes(word, validated)
GetChanges ==
    /\ pc = "get_changes"
    /\ \E r \in {Rule__get_changes(rule, heap[word], validated)} :
           IF r.st = "ok"
           THEN /\ changes' = r.changes
                /\ pc' = "apply_changes"
                /\ exc' = exc
           ELSE /\ RaiseFrom(r.st)
                /\ changes' = <<>>
    /\ UNCHANGED <<rule, heap, word, wordin, iter, targets, validated, produced>>
    /\ UNCHANGED <<blockvars, predicatevars, matchvars, wordsvars>>

\* newword = self._apply_changes(word, changes); return newword
ApplyChanges ==
    /\ pc = "apply_changes"
    /\ \E o \in {Rule__apply_changes(heap, word, changes)} :
           /\ heap' = o.heap
           /\ word' = o.ref
           /\ produced' = Append(produced, o.ref)
    /\ pc' = "applied"
    /\ UNCHANGED <<rule, wordin, iter, targets, validated, changes, exc>>
    /\ UNCHANGED <<blockvars, predicatevars, matchvars, wordsvars>>

\* `if word == wordin: break`, then the next iteration or `return word`
Repeat ==
    /\ pc = "applied"
    /\ IF heap[word] = heap[wordin]
       THEN /\ pc' = "returned"
            /\ iter' = iter
            /\ wordin' = wordin
       ELSE ForRepeat(iter)
    /\ UNCHANGED <<rule, heap, word, targets, validated, changes, exc, produced>>
    /\ UNCHANGED <<blockvars, predicatevars, matchvars, wordsvars>>

Next ==
    \/ Call
    \/ GetTargets
    \/ ValidateTargets
    \/ GetChanges
    \/ ApplyChanges
    \/ Repeat

Spec == Init /\ [][Next]_vars

\* ------------------------------------------------------------------------
\* RuleBlock._apply(word)
\* ------------------------------------------------------------------------
BlockInit ==
    /\ block \in Blocks
    /\ binput \in BlockWords
    /\ bword = binput
    /\ applied = FALSE
    /\ brules = <<>>
    /\ bvalues = <<>>
    /\ bkind = "list"
    /\ cur = 0
    /\ queue = <<>>
    /\ bpc = "for"
    /\ bexc = "none"
    /\ log = <<>>
    /\ RuleIdle
    /\ PredicateIdle
    /\ MatchIdle
    /\ WordsIdle

\* what the log keeps of a rule the inner loop reached: the iteration of
\* the outer loop, the rule, whether it was run, and the outcome
Entry(iteration, member, ran, outcome) ==
    [iteration |-> iteration, rule |-> member, ran |-> ran, outcome |-> outcome]

\* `for cur_rule in self.rules`: the next rule and the start of the inner
\* loop over (cur_rule, *rules), or `return word` after the last one
BlockFor ==
    /\ bpc = "for"
    /\ IF cur < Len(block)
       THEN /\ cur' = cur + 1
            /\ queue' = <<block[cur + 1]>> \o brules
            /\ bpc' = "inner"
       ELSE /\ bpc' = "returned"
            /\ UNCHANGED <<cur, queue>>
    /\ UNCHANGED <<block, binput, bword, applied, brules, bvalues, bkind, bexc, log>>
    /\ UNCHANGED <<rulevars, predicatevars, matchvars, wordsvars>>

\* one pass of the inner loop: the ditto gate, the call of the rule with
\* its handlers, the stop gate; BlockStopped is caught by `except
\* BlockStopped: pass` and the word is returned
BlockRule ==
    /\ bpc = "inner"
    /\ queue # <<>>
    /\ IF ditto_gate(Head(queue).flags, applied)
       THEN \E roll \in Rolls : \E r \in {run_member(Head(queue), bword, applied, roll)} :
               /\ bword' = r.word
               /\ applied' = r.applied
               /\ log' = Append(log, Entry(cur, Head(queue), TRUE, r.outcome))
               /\ CASE r.st = "next" ->
                          /\ queue' = Tail(queue)
                          /\ UNCHANGED <<bpc, bexc>>
                    [] r.st = "BlockStopped" ->
                          /\ bpc' = "returned"
                          /\ UNCHANGED <<queue, bexc>>
                    [] OTHER ->
                          /\ bpc' = "raised"
                          /\ bexc' = r.st
                          /\ UNCHANGED queue
       ELSE /\ queue' = Tail(queue)
            /\ log' = Append(log, Entry(cur, Head(queue), FALSE, "skipped"))
            /\ UNCHANGED <<bword, applied, bpc, bexc>>
    /\ UNCHANGED <<block, binput, brules, bvalues, bkind, cur>>
    /\ UNCHANGED <<rulevars, predicatevars, matchvars, wordsvars>>

\* the end of an iteration of the outer loop: the persistent rules
BlockBookkeep ==
    /\ bpc = "inner"
    /\ queue = <<>>
    /\ \E r \in {bookkeep(brules, bvalues, bkind, block[cur])} :
           /\ brules' = r.rules
           /\ bvalues' = r.values
           /\ bkind' = r.kind
           /\ IF r.st = "ok"
              THEN /\ bpc' = "for"
                   /\ bexc' = bexc
              ELSE /\ bpc' = "raised"
                   /\ bexc' = r.st
    /\ UNCHANGED <<block, binput, bword, applied, cur, queue, log>>
    /\ UNCHANGED <<rulevars, predicatevars, matchvars, wordsvars>>

BlockNext ==
    \/ BlockFor
    \/ BlockRule
    \/ BlockBookkeep

SpecBlock == BlockInit /\ [][BlockNext]_vars

\* ------------------------------------------------------------------------
\* Predicate.match(word, match, catixes) with empty catixes
\* ------------------------------------------------------------------------
PredicateInit ==
    /\ predicate \in Predicates
    /\ pword \in Words
    /\ pmatch \in Matches(pword)
    /\ ppc = "match"
    /\ verdict = Val(FALSE)
    /\ RuleIdle
    /\ BlockIdle
    /\ MatchIdle
    /\ WordsIdle

PredicateMatch ==
    /\ ppc = "match"
    /\ verdict' = Predicate_match(predicate, pword, pmatch, EmptyCatixes)
    /\ ppc' = "done"
    /\ UNCHANGED <<predicate, pword, pmatch>>
    /\ UNCHANGED <<rulevars, blockvars, matchvars, wordsvars>>

PredicateNext == PredicateMatch

SpecPredicate == PredicateInit /\ [][PredicateNext]_vars

\* ------------------------------------------------------------------------
\* Pattern.match(word, start, stop, catixes) with one anchor given
\* ------------------------------------------------------------------------
\* the words matched against have at most MaxMatchLen phones between their
\* two # boundaries
MaxMatchLen == 2

MatchWords ==
    {<<pHash>> \o s \o <<pHash>> : s \in SeqsUpTo({pA, pB}, MaxMatchLen)}

CatBCA == <<pB, pC, pA>>

\* the elements of the patterns: a, b, ", [a,b], [a,b] and [b,c,a] with
\* subscript 1, [a,b] with subscript 2, the four wildcards, ([a,b] with subscript 1){2}, the same
\* under {*} and {*?}, (a), (a)?, ([a,b] with subscript 1), (a#), and a
\* SylBreak
MatchElements ==
    { Grapheme(pA), Grapheme(pB), Ditto,
      Category(CatAB, NoSub), Category(CatAB, 1), Category(CatBCA, 1),
      Category(CatAB, 2),
      Repetition(<<Category(CatAB, 1)>>, 2),
      Optional(<<Grapheme(pA)>>, TRUE), Optional(<<Grapheme(pA)>>, FALSE),
      Optional(<<Category(CatAB, 1)>>, TRUE),
      Optional(<<Grapheme(pA), Grapheme(pHash)>>, TRUE),
      SylBreak }
        \cup {Wildcard(greedy, extended) : greedy, extended \in BOOLEAN}
        \cup {WildcardRepetition(<<Category(CatAB, 1)>>, greedy) : greedy \in BOOLEAN}

\* the patterns: the empty one, and those of one and of two elements
MatchPatterns ==
    {<<>>} \cup {<<e>> : e \in MatchElements}
           \cup {<<e, f>> : e, f \in MatchElements}

\* the catixes handed to the call: none, and subscript 1 bound to the
\* position 1 or 2 of a category
MatchCatixes == {EmptyCatixes} \cup {(1 :> k) : k \in {1, 2}}

\* the anchors: every boundary of the word, and the position before the
\* first one
Anchors(w) == (0 - 1)..Len(w)

MatchInit ==
    /\ mpattern \in MatchPatterns
    /\ mword \in MatchWords
    /\ mdir \in {"start", "stop"}
    /\ mpos \in Anchors(mword)
    /\ mcatixes \in MatchCatixes
    /\ mpc = "match"
    /\ mresult = Raise("none")
    /\ mstack = <<>>
    /\ mret = Raise("none")
    /\ RuleIdle
    /\ BlockIdle
    /\ PredicateIdle
    /\ WordsIdle

MatchCall ==
    /\ mpc = "match"
    /\ mresult' = Pattern_match(mpattern, mword, mdir, mpos, mcatixes)
    /\ mpc' = "done"
    /\ UNCHANGED <<mpattern, mword, mdir, mpos, mcatixes, mstack, mret>>
    /\ UNCHANGED <<rulevars, blockvars, predicatevars, wordsvars>>

MatchNext == MatchCall

SpecMatch == MatchInit /\ [][MatchNext]_vars

\* ------------------------------------------------------------------------
\* Pattern.match step by step, for a pattern that begins (in the direction
\* of the match) with a Wildcard or a WildcardRepetition: every activation
\* of WildcardMixin.match_pattern is a frame of mstack
\* ------------------------------------------------------------------------
MaxDepth == 8

\* the inner patterns of the WildcardRepetitions: one phone; one phone with
\* a subscript; no element; an optional phone; a phone repeated 0 times
DepthInner ==
    { <<Grapheme(pA)>>,
      <<Category(CatAB, 1)>>,
      <<>>,
      <<Optional(<<Grapheme(pA)>>, TRUE)>>,
      <<Repetition(<<Grapheme(pA)>>, 0)>> }

DepthWildcards ==
    {Wildcard(g, x) : g \in BOOLEAN, x \in BOOLEAN}
        \cup {WildcardRepetition(p, g) : p \in DepthInner, g \in BOOLEAN}

\* what follows the wildcard in the direction of the match
DepthRests == {<<>>, <<Grapheme(pB)>>, <<Grapheme(pHash)>>}

\* the element whose match_pattern Pattern._match calls, and the pattern it
\* hands to it
DepthElement ==
    IF mdir = "start" THEN mpattern[1] ELSE mpattern[Len(mpattern)]

DepthRest ==
    IF mdir = "start" THEN SubSeq(mpattern, 2, Len(mpattern))
    ELSE SubSeq(mpattern, 1, Len(mpattern) - 1)

DepthInit ==
    /\ mdir \in {"start", "stop"}
    /\ \E w \in DepthWildcards, r \in DepthRests :
           mpattern = IF mdir = "start" THEN <<w>> \o r ELSE r \o <<w>>
    /\ mword \in MatchWords
    /\ mpos \in Anchors(mword)
    /\ mcatixes \in MatchCatixes
    /\ mpc = "call"
    /\ mresult = Raise("none")
    /\ mstack = <<>>
    /\ mret = Raise("none")
    /\ RuleIdle
    /\ BlockIdle
    /\ PredicateIdle
    /\ WordsIdle

\* the arguments of the next activation: those of Pattern._match for the
\* first one, then the position and the catixes the caller has reached
DepthArgs ==
    IF mstack = <<>>
    THEN Bind(advance(mword, 0, mdir, mpos),
              LAMBDA a : IF a.st = "ok"
                         THEN [st |-> "ok", pos |-> a.pos, catixes |-> mcatixes]
                         ELSE a)
    ELSE [st |-> "ok", pos |-> mstack[Len(mstack)].pos,
          catixes |-> mstack[Len(mstack)].catixes]

\* self.match(word, start, stop, catixes) and advance of one activation:
\* the frame of the activation, or the exception that leaves it
DepthUnit(args) ==
    IF args.st # "ok" THEN args
    ELSE Bind(Element_match(DepthElement, mword, mdir, args.pos, args.catixes),
              LAMBDA r1 :
                  IF r1.st # "ok" THEN r1
                  ELSE Bind(advance(mword, r1.length, mdir, args.pos),
                            LAMBDA a :
                                IF a.st # "ok" THEN a
                                ELSE [st |-> "ok", pos |-> a.pos,
                                      catixes |-> r1.catixes,
                                      length |-> r1.length]))

\* a call of WildcardMixin.match_pattern: the unit is matched, then
\* BranchMixin.match_pattern either calls match_pattern again (greedy, or
\* lazy after the rest has failed with whatever exception) or returns what
\* the rest matched (lazy)
DepthCall ==
    /\ mpc = "call"
    /\ Len(mstack) < MaxDepth
    /\ \E f \in {DepthUnit(DepthArgs)} :
           IF f.st # "ok"
           THEN /\ mret' = f
                /\ mpc' = "raise"
                /\ mstack' = mstack
           ELSE /\ mstack' = Append(mstack, [pos |-> f.pos, catixes |-> f.catixes,
                                             length |-> f.length])
                /\ IF DepthElement.greedy
                   THEN /\ mpc' = "call"
                        /\ mret' = mret
                   ELSE \E r \in {Pattern__match(DepthRest, mword, mdir, f.pos,
                                                 f.catixes)} :
                            IF r.st = "ok"
                            THEN /\ mpc' = "return"
                                 /\ mret' = r
                            ELSE /\ mpc' = "call"
                                 /\ mret' = mret
    /\ UNCHANGED <<mpattern, mword, mdir, mpos, mcatixes, mresult>>
    /\ UNCHANGED <<rulevars, blockvars, predicatevars, wordsvars>>

\* an exception leaves an activation: the greedy caller catches MatchFailed
\* and matches the rest where it stands; every other caller lets it pass;
\* Pattern.match turns MatchFailed into (None, {})
DepthRaise ==
    /\ mpc = "raise"
    /\ IF mstack = <<>>
       THEN /\ mpc' = "done"
            /\ mresult' = IF mret.st = "MatchFailed"
                          THEN [st |-> "None", catixes |-> EmptyCatixes]
                          ELSE mret
            /\ UNCHANGED <<mstack, mret>>
       ELSE LET f == mstack[Len(mstack)]
            IN  /\ mresult' = mresult
                /\ IF DepthElement.greedy /\ mret.st = "MatchFailed"
                   THEN \E r \in {Pattern__match(DepthRest, mword, mdir, f.pos,
                                                 f.catixes)} :
                            IF r.st = "ok"
                            THEN /\ mpc' = "return"
                                 /\ mret' = r
                                 /\ mstack' = mstack
                            ELSE /\ mpc' = "raise"
                                 /\ mret' = r
                                 /\ mstack' = SubSeq(mstack, 1, Len(mstack) - 1)
                   ELSE /\ mpc' = "raise"
                        /\ mret' = mret
                        /\ mstack' = SubSeq(mstack, 1, Len(mstack) - 1)
    /\ UNCHANGED <<mpattern, mword, mdir, mpos, mcatixes>>
    /\ UNCHANGED <<rulevars, blockvars, predicatevars, wordsvars>>

\* `return length + _length, catixes` of an activation, and the return of
\* Pattern.match when the first activation has returned
DepthReturn ==
    /\ mpc = "return"
    /\ IF mstack = <<>>
       THEN /\ mpc' = "done"
            /\ mresult' = [st |-> "ok",
                           match |-> IF mdir = "start"
                                     THEN Slice(mpos, mpos + mret.length)
                                     ELSE Slice(mpos - mret.length, mpos),
                           catixes |-> mret.catixes]
            /\ UNCHANGED <<mstack, mret>>
       ELSE /\ mpc' = "return"
            /\ mret' = Ok(mstack[Len(mstack)].length + mret.length, mret.catixes)
            /\ mstack' = SubSeq(mstack, 1, Len(mstack) - 1)
            /\ mresult' = mresult
    /\ UNCHANGED <<mpattern, mword, mdir, mpos, mcatixes>>
    /\ UNCHANGED <<rulevars, blockvars, predicatevars, wordsvars>>

DepthNext == DepthCall \/ DepthRaise \/ DepthReturn

SpecDepth == DepthInit /\ [][DepthNext]_vars

\* ------------------------------------------------------------------------
\* The program of words.py: a string is parsed with an inventory and a
\* separator and the phones are unparsed again, or the string is made a
\* Word by Word.parse
\* ------------------------------------------------------------------------
MaxStringLen == 3

\* the characters of the strings: two letters, the separator, a blank, the
\* no-break space U+00A0 and the wildcard
StringChars == {"a", "b", ".", " ", " ", "*"}

Strings == UNION {[1..n -> StringChars] : n \in 0..MaxStringLen}

\* the inventories: any character; two letters; two letters and their
\* digraph; a digraph without its second letter; an empty entry; entries with
\* wildcards; entries that hold a #; a digraph and its second letter
Inventories ==
    { << <<"*">> >>,
      << <<"a">>, <<"b">> >>,
      << <<"a">>, <<"b">>, <<"a", "b">> >>,
      << <<"a">>, <<"a", "b">>, <<"a", "a">>, <<>> >>,
      << <<"a", "*">>, <<"b">>, <<"*">> >>,
      << <<"a">>, <<"b">>, <<"#">> >>,
      << <<"*", "#">>, <<"*">> >>,
      << <<"a", "b">>, <<"b">> >> }

Separators == {<<>>, <<".">>, <<"#">>}

WordsInit ==
    /\ sstring \in Strings
    /\ sgraphemes \in Inventories
    /\ sseparator \in Separators
    /\ spc = "start"
    /\ sparsed = Raise("none")
    /\ sunparsed = <<>>
    /\ sword = Raise("none")
    /\ RuleIdle
    /\ BlockIdle
    /\ PredicateIdle
    /\ MatchIdle

\* phones = parse(string, graphemes, separator)
ParseCall ==
    /\ spc = "start"
    /\ sparsed' = parse(sstring, sgraphemes, sseparator)
    /\ spc' = "parsed"
    /\ UNCHANGED <<sstring, sgraphemes, sseparator, sunparsed, sword>>
    /\ UNCHANGED <<rulevars, blockvars, predicatevars, matchvars>>

\* unparse(phones, graphemes, separator), when parse returned
UnparseCall ==
    /\ spc = "parsed"
    /\ sparsed.st = "ok"
    /\ sunparsed' = unparse(sparsed.phones, sgraphemes, sseparator)
    /\ spc' = "unparsed"
    /\ UNCHANGED <<sstring, sgraphemes, sseparator, sparsed, sword>>
    /\ UNCHANGED <<rulevars, blockvars, predicatevars, matchvars>>

\* word = Word.parse(string, graphemes, separator)
WordParseCall ==
    /\ spc = "start"
    /\ sword' = Word_parse(sstring, sgraphemes, sseparator)
    /\ spc' = "word"
    /\ UNCHANGED <<sstring, sgraphemes, sseparator, sparsed, sunparsed>>
    /\ UNCHANGED <<rulevars, blockvars, predicatevars, matchvars>>

WordsNext == ParseCall \/ UnparseCall \/ WordParseCall

SpecWords == WordsInit /\ [][WordsNext]_vars

\* ------------------------------------------------------------------------
\* Properties of the call rule(word), checked under Spec
\* ------------------------------------------------------------------------
\* the changes the predicate of a validated target proposes, before the
\* overlap check of Rule._get_changes
Proposed(t) ==
    Predicate_get_changes(rule.predicates[t.pindex + 1], heap[word],
                          t.match, t.catixes, t.index)

\* C1: the change-set that Rule._get_changes builds and _apply_changes
\* applies holds no two edits whose ranges overlap, as decided by overlaps
C1_ChangeSetOverlapFree ==
    \A i, j \in 1..Len(changes) :
        i # j => ~overlaps(changes[i].match, changes[j].match)

\* a change-set of two edits or more is about to be applied, and an edit
\* that a validated target proposed was left out of it
C1_Witness ==
    /\ pc = "apply_changes"
    /\ Len(changes) >= 2
    /\ \E i \in 1..Len(validated) :
          \E r \in {Proposed(validated[i])} :
              /\ r.st = "ok"
              /\ \E k \in 1..Len(r.changes) :
                    \A j \in 1..Len(changes) : changes[j] # r.changes[k]

\* C2 as the specification states it: applying a rule leaves the input word
\* as it was and returns a new word, that is, a Word object other than the
\* input
C2_InputUnchangedResultNew ==
    [][pc = "apply_changes" =>
          /\ heap'[word] = heap[word]
          /\ word' # word]_vars

\* C2, amended: no step changes a Word object that exists, the input
\* included; the application returns a Word object created by it when the
\* change-set holds an edit, and the input object itself when it holds none
C2_InputUnchangedResultNewIfEdited ==
    [][/\ Len(heap') >= Len(heap)
       /\ \A ref \in 1..Len(heap) : heap'[ref] = heap[ref]
       /\ pc = "apply_changes" =>
             IF changes = <<>>
             THEN word' = word
             ELSE word' \in (Len(heap) + 1)..Len(heap')]_vars

\* an application with edits has returned: the result is another object
\* than its input, with other contents
C2_Witness ==
    /\ pc = "applied"
    /\ changes # <<>>
    /\ word # wordin
    /\ heap[word] # heap[wordin]

\* the position of a word of n phones that a slice denotes, the stop not
\* before the start
RangeStart(c, n) == SliceIndex(c.match.start, n)
RangeStop(c, n) == Max(SliceIndex(c.match.stop, n), SliceIndex(c.match.start, n))

\* the replacements of the changes that satisfy Test, in the order of chs
Replacements(chs, Test(_)) ==
    Concat([i \in 1..Len(chs) |->
               IF Test(chs[i]) THEN chs[i].replacement ELSE <<>>])

\* the word with every range replaced by its replacement, all ranges read
\* on `phones`: before position p come the insertions at p, then the
\* replacement of the range that starts at p or, when no range covers p,
\* the phone at p
RECURSIVE SimultaneousFrom(_, _, _)
SimultaneousFrom(phones, chs, p) ==
    LET n == Len(phones)
        inserted == Replacements(chs,
            LAMBDA c : RangeStart(c, n) = p /\ RangeStop(c, n) = p)
        replaced == Replacements(chs,
            LAMBDA c : RangeStart(c, n) = p /\ RangeStop(c, n) > p)
        kept == IF p < n /\ \A i \in 1..Len(chs) :
                              ~(RangeStart(chs[i], n) <= p /\ p < RangeStop(chs[i], n))
                THEN <<phones[p + 1]>> ELSE <<>>
    IN  IF p > n THEN <<>>
        ELSE inserted \o replaced \o kept \o SimultaneousFrom(phones, chs, p + 1)

Simultaneous(phones, chs) == SimultaneousFrom(phones, chs, 0)

\* C3: the word _apply_changes returns is the input word with the range of
\* each edit replaced by its replacement, every range being read as
\* positions of the input word
C3_SimultaneousReplacement ==
    pc = "applied" => heap[word].phones = Simultaneous(heap[wordin].phones, changes)

\* C8: when the chance roll succeeded, the call applies the rule at most
\* repeat times, goes on only after an application that changed the word,
\* and ends by returning the word its last application produced - the
\* input word when repeat is 0
C8_RepeatReturnsLastApplication ==
    /\ Len(produced) <= rule.flags.repeat
    /\ \A i \in 1..(Len(produced) - 1) :
          heap[produced[i]] # heap[IF i = 1 THEN 1 ELSE produced[i - 1]]
    /\ pc = "returned" =>
          word = (IF produced = <<>> THEN 1 ELSE produced[Len(produced)])
    /\ (pc = "raised" /\ exc \in {"NoTargetsFound", "NoTargetsValidated"}) =>
          produced = <<>>
    /\ (pc \in {"returned", "raised"} /\ exc # "RuleRandomlySkipped"
            /\ rule.flags.repeat = 0) =>
          (pc = "returned" /\ word = 1 /\ Len(heap) = 1)

\* the matches the targets of the rule yield in the word w, when no
\* Target.match fails
TargetsOk(w) ==
    \A i \in 1..Len(rule.targets) : Target_match(rule.targets[i], w).st = "ok"

Found(w) ==
    UNION {SeqToSet(Target_match(rule.targets[i], w).found) :
              i \in 1..Len(rule.targets)}

\* some predicate of the rule accepts the match t
Accepted(w, t) ==
    \E p \in 1..Len(rule.predicates) :
        \E r \in {Predicate_match(rule.predicates[p], w, t.match, t.catixes)} :
            r.st = "ok" /\ r.val

PredicatesOk(w) ==
    \A t \in Found(w) : \A p \in 1..Len(rule.predicates) :
        Predicate_match(rule.predicates[p], w, t.match, t.catixes).st = "ok"

\* C10: the application fails with NoTargetsFound exactly when no target
\* of the rule yields a match in the word, and with NoTargetsValidated
\* exactly when matches were found and no predicate accepts any of them; a
\* failed application produces no word (the newest Word object is still its
\* input); both failures are RuleDidNotApply
C10_NoTargetsExactly ==
    /\ {"NoTargetsFound", "NoTargetsValidated"} \subseteq RuleDidNotApply
    /\ exc = "NoTargetsFound" =>
          /\ pc = "raised"
          /\ TargetsOk(heap[word])
          /\ Found(heap[word]) = {}
    /\ exc = "NoTargetsValidated" =>
          /\ pc = "raised"
          /\ TargetsOk(heap[word])
          /\ Found(heap[word]) # {}
          /\ \A t \in Found(heap[word]) : ~Accepted(heap[word], t)
    /\ pc = "validate_targets" => Found(heap[word]) # {}
    /\ pc \in {"get_changes", "apply_changes"} =>
          \E t \in Found(heap[word]) : Accepted(heap[word], t)
    /\ (pc = "raised" /\ exc # "RuleRandomlySkipped" /\ TargetsOk(heap[word])) =>
          /\ Found(heap[word]) = {} => exc = "NoTargetsFound"
          /\ (/\ Found(heap[word]) # {}
              /\ PredicatesOk(heap[word])
              /\ \A t \in Found(heap[word]) : ~Accepted(heap[word], t)) =>
                exc = "NoTargetsValidated"
    /\ exc \in {"NoTargetsFound", "NoTargetsValidated"} =>
          /\ word = wordin
          /\ word = Len(heap)

\* an application found matches and no predicate accepted any of them
C10_Witness ==
    /\ pc = "raised"
    /\ exc = "NoTargetsValidated"
    /\ targets # <<>>

\* the positions (counted from 0) of the vowels of w that are followed by
\* the same vowel
DoubledVowels(w) ==
    {p \in 0..(Len(w.phones) - 2) :
        /\ Py(w.phones, p) \in SeqToSet(CatV)
        /\ Py(w.phones, p + 1) = Py(w.phones, p)}

\* C19 as stated: the rule [V]1 > [V]1 / _[V]1 called on maa returns ma.
C19_SecondVowelDeleted ==
    (/\ rule = VowelRule
     /\ pc = "returned"
     /\ heap[1].phones = <<pHash, <<"m">>, pA, pA, pHash>>) =>
        heap[word].phones = <<pHash, <<"m">>, pA, pHash>>

\* C19, amended: under the rule [V]1 > [V]1 / _[V]1 the subscript bound by
\* the target must agree in the environment, so the targets validated are
\* exactly the vowels followed by the same vowel, and the call fails with
\* NoTargetsValidated when the word has vowels and none is doubled; each
\* validated vowel is replaced by itself, so the word returned is a new
\* object with the phones of the input: maa gives maa.
C19_SubscriptAgreesVowelKept ==
    rule = VowelRule =>
        /\ pc \in {"get_changes", "apply_changes", "applied", "returned"} =>
              {validated[i].match.start : i \in 1..Len(validated)}
                  = DoubledVowels(heap[1])
        /\ pc = "apply_changes" =>
              \A i \in 1..Len(changes) :
                  changes[i].replacement
                      = <<Py(heap[1].phones, changes[i].match.start)>>
        /\ pc = "returned" =>
              /\ word # 1
              /\ heap[word].phones = heap[1].phones
        /\ pc = "raised" =>
              /\ DoubledVowels(heap[1]) = {}
              /\ exc = IF \E p \in 1..Len(heap[1].phones) :
                              heap[1].phones[p] \in SeqToSet(CatV)
                       THEN "NoTargetsValidated" ELSE "NoTargetsFound"

\* the rule was called on maa, validated one target and returned maa
C19_Witness ==
    /\ rule = VowelRule
    /\ pc = "returned"
    /\ heap[1].phones = <<pHash, <<"m">>, pA, pA, pHash>>
    /\ heap[word].phones = <<pHash, <<"m">>, pA, pA, pHash>>
    /\ Len(validated) = 1

\* the change-set of Rule._get_changes after the first k validated targets
ChangesAfter(k) ==
    get_changes_loop(rule, heap[word], SubSeq(validated, 1, k), 1, <<>>).changes

\* the predicate of the k-th validated target is a Move
IsMove(k) == rule.predicates[validated[k].pindex + 1].type = "Move"

\* the insertions that the Move of the k-th validated target proposes: its
\* changes but the first, which deletes the target
ProposedInsertions(k) == Tail(Proposed(validated[k]).changes)

\* the contribution of the k-th validated target is kept whole or not at
\* all: the change-set grows by more than one edit, one of them an
\* insertion of the target, or it is what it was before that target; and
\* a Move none of whose insertions can be queued is rolled back
MoveVerified(k) ==
    LET before == ChangesAfter(k - 1)
        after == ChangesAfter(k)
    IN  /\ \/ after = before
           \/ /\ Len(after) > Len(before) + 1
              /\ SubSeq(after, 1, Len(before)) = before
              /\ \E i \in (Len(before) + 1)..Len(after) :
                     /\ after[i].match.start = after[i].match.stop
                     /\ after[i].replacement
                            = Word_slice(heap[word], validated[k].match)
        /\ (\A i \in 1..Len(ProposedInsertions(k)) :
                \E j \in 1..Len(before) :
                    overlaps(ProposedInsertions(k)[i].match, before[j].match))
               => after = before

\* the Move of the k-th validated target puts the target back where it
\* was: its only destination is the start or the stop of the target
SelfMove(k) ==
    /\ Len(ProposedInsertions(k)) = 1
    /\ ProposedInsertions(k)[1].match.start
           \in {validated[k].match.start, validated[k].match.stop}

\* C20 as stated: a Move's contribution is kept only when the change-set
\* grew by more than one edit, and a Move without a net new insertion, the
\* self-move that puts the target back where it was included, is rolled
\* back, leaving the change-set as it was before that target.
C20_SelfMoveRolledBack ==
    pc = "apply_changes" =>
        /\ changes = ChangesAfter(Len(validated))
        /\ \A k \in 1..Len(validated) :
               IsMove(k) =>
                   /\ MoveVerified(k)
                   /\ SelfMove(k) => ChangesAfter(k) = ChangesAfter(k - 1)

\* the edit overlaps none of the edits queued before the k-th validated
\* target
Free(match, k) ==
    \A j \in 1..Len(ChangesAfter(k - 1)) :
        ~overlaps(match, ChangesAfter(k - 1)[j].match)

\* the k-th validated target is empty
EmptyTarget(k) == validated[k].match.start = validated[k].match.stop

\* C20, amended: a Move's contribution is kept only when the change-set grew
\* by more than one edit, that is when at least one insertion was queued
\* with the deletion; a Move whose insertions all overlap queued edits, or
\* that has no destination, is rolled back and the change-set is exactly
\* what it was before that target.  A self-move is not rolled back for
\* being one: when the target is not empty, its insertion at the start or
\* the stop of the target does not overlap its deletion, and the two are
\* kept if neither overlaps an edit queued before that target, and rolled
\* back if either does; the self-move of an empty target is always rolled
\* back.
C20_MoveKeptOnlyWithInsertion ==
    pc = "apply_changes" =>
        /\ changes = ChangesAfter(Len(validated))
        /\ \A k \in 1..Len(validated) :
               IsMove(k) =>
                   /\ MoveVerified(k)
                   /\ SelfMove(k) =>
                          ChangesAfter(k) =
                              IF /\ ~EmptyTarget(k)
                                 /\ Free(validated[k].match, k)
                                 /\ Free(ProposedInsertions(k)[1].match, k)
                              THEN ChangesAfter(k - 1)
                                       \o <<Change(validated[k].match, <<>>)>>
                                       \o ProposedInsertions(k)
                              ELSE ChangesAfter(k - 1)

\* the Move of the first target queued its two edits, and the self-move of
\* the second target, which is not empty, was rolled back because its
\* insertion overlaps one of them
C20_Witness ==
    /\ pc = "apply_changes"
    /\ Len(validated) >= 2
    /\ IsMove(1)
    /\ IsMove(2)
    /\ Len(ChangesAfter(1)) = 2
    /\ SelfMove(2)
    /\ ~EmptyTarget(2)
    /\ Free(validated[2].match, 2)
    /\ ~Free(ProposedInsertions(2)[1].match, 2)
    /\ ChangesAfter(2) = ChangesAfter(1)
    /\ changes = ChangesAfter(1)

\* the targets in the order Rule._get_targets finds them, before the sort
Enumerated == get_targets_loop(rule, heap[word], 0, <<>>).targets

\* what _get_targets returns for the same rule with the rtl flag the other
\* way
OtherDirection ==
    Rule__get_targets([rule EXCEPT !.flags.rtl = 1 - rule.flags.rtl], heap[word])

\* how often x occurs in seq
Count(seq, x) == Cardinality({i \in 1..Len(seq) : seq[i] = x})

SameCollection(a, b) ==
    \A x \in SeqToSet(a) \cup SeqToSet(b) : Count(a, x) = Count(b, x)

\* the sort key of a target under the flag rtl
SortKey(t, rtl) == IF rtl # 0 THEN <<0 - t.match.stop, t.index>>
                   ELSE <<t.match.start, t.index>>

FirstAt(seq, x) == CHOOSE i \in 1..Len(seq) :
                       seq[i] = x /\ \A j \in 1..(i - 1) : seq[j] # x

\* ts is ordered by the key of the flag, targets of one key in the order
\* of the enumeration
SortedBy(ts, rtl) ==
    \A i, j \in 1..Len(ts) :
        i < j =>
            LET a == SortKey(ts[i], rtl)
                b == SortKey(ts[j], rtl)
            IN  \/ a[1] < b[1]
                \/ a[1] = b[1] /\ a[2] < b[2]
                \/ /\ a = b
                   /\ FirstAt(Enumerated, ts[i]) <= FirstAt(Enumerated, ts[j])

\* C22: the rtl flag changes only the order of the targets that
\* _get_targets returns: with the flag the other way the same collection of
\* (match, catixes, target index) is returned (or NoTargetsFound is raised
\* both ways); without rtl the list is sorted by (start, target index), with
\* rtl by (-stop, target index), targets of one key in enumeration order.
C22_RtlOnlyReorders ==
    /\ pc = "validate_targets" =>
          /\ OtherDirection.st = "ok"
          /\ SameCollection(targets, OtherDirection.targets)
          /\ SameCollection(targets, Enumerated)
          /\ SortedBy(targets, rule.flags.rtl)
          /\ SortedBy(OtherDirection.targets, 1 - rule.flags.rtl)
    /\ exc = "NoTargetsFound" => OtherDirection.st = "NoTargetsFound"

\* right-to-left, two targets of one key were found and kept their
\* enumeration order, and the list differs from the left-to-right one
C22_Witness ==
    /\ pc = "validate_targets"
    /\ rule.flags.rtl = 1
    /\ targets # OtherDirection.targets
    /\ \E i \in 1..(Len(targets) - 1) :
           /\ SortKey(targets[i], 1) = SortKey(targets[i + 1], 1)
           /\ targets[i].match.start < targets[i + 1].match.start

\* C24: Rule._validate_targets skips every target that overlaps a target
\* validated earlier in the same pass: no two validated targets overlap, as
\* decided by overlaps, in either direction, for empty and non-empty matches
\* and for rules with several target patterns
C24_ValidatedOverlapFree ==
    \A i, j \in 1..Len(validated) :
        i # j => ~overlaps(validated[i].match, validated[j].match)

\* whether predicate number q of the rule accepts the target t of the word
\* that _validate_targets was given
Accepts(q, t) ==
    \E r \in {Predicate_match(rule.predicates[q + 1], heap[word],
                               t.match, t.catixes)} : r.st = "ok" /\ r.val

\* whether the target t is among the validated targets
IsValidated(t) ==
    \E k \in 1..Len(validated) :
        /\ validated[k].match = t.match
        /\ validated[k].catixes = t.catixes
        /\ validated[k].index = t.index

\* C25: every validated target records the index of the first predicate, in
\* the order of declaration, that accepts it, and a target that no predicate
\* accepts is dropped
C25_FirstAcceptingPredicate ==
    pc = "get_changes" =>
        /\ \A k \in 1..Len(validated) :
               /\ validated[k].pindex \in 0..(Len(rule.predicates) - 1)
               /\ Accepts(validated[k].pindex, validated[k])
               /\ \A q \in 0..(validated[k].pindex - 1) :
                      ~Accepts(q, validated[k])
        /\ \A i \in 1..Len(targets) :
               (\A q \in 0..(Len(rule.predicates) - 1) : ~Accepts(q, targets[i]))
                   => ~IsValidated(targets[i])

\* one pass validated a target with the first predicate and another with
\* the second, which the first rejects, and dropped a target that neither
\* accepts
C25_Witness ==
    /\ pc = "get_changes"
    /\ Len(rule.predicates) = 2
    /\ \E k \in 1..Len(validated) : validated[k].pindex = 0
    /\ \E k \in 1..Len(validated) :
           /\ validated[k].pindex = 1
           /\ ~Accepts(0, validated[k])
    /\ \E i \in 1..Len(targets) :
           /\ ~Accepts(0, targets[i])
           /\ ~Accepts(1, targets[i])
           /\ ~IsValidated(targets[i])

\* the match of the pattern from position s of the word
MatchFrom(pattern, w, s) ==
    Pattern_match(pattern, w.phones, "start", s, EmptyCatixes)

\* the start positions where the pattern succeeds with a match other than
\* slice(0, 0)
Successes(pattern, w) ==
    {s \in 0..(Len(w.phones) - 1) :
        \E r \in {MatchFrom(pattern, w, s)} :
            r.st = "ok" /\ r.match # Slice(0, 0)}

\* the matches at those positions, in ascending order of the start
Filtered(pattern, w) ==
    LET starts == SortedSeq(Successes(pattern, w))
    IN  [i \in 1..Len(starts) |->
            [match |-> MatchFrom(pattern, w, starts[i]).match,
             catixes |-> MatchFrom(pattern, w, starts[i]).catixes]]

\* the entries of list at the positions that indices names and list has, in
\* the order of indices, a negative position counting from the end
Selected(list, indices) ==
    LET inrange == SelectSeq(indices,
                       LAMBDA ix : 0 - Len(list) <= ix /\ ix < Len(list))
    IN  [k \in 1..Len(inrange) |->
            list[IF inrange[k] >= 0 THEN inrange[k] + 1
                 ELSE Len(list) + inrange[k] + 1]]

\* the entries that the enumeration of _get_targets holds for target
\* number index
FoundFor(index) ==
    LET mine == SelectSeq(Enumerated, LAMBDA e : e.index = index)
    IN  [i \in 1..Len(mine) |->
            [match |-> mine[i].match, catixes |-> mine[i].catixes]]

\* C26: Target.match returns, in ascending order of the start, the match of
\* the pattern at every start position of the word where it succeeds, other
\* than slice(0, 0); with indices it returns the matches that the indices
\* name in that list, in the order of the indices, without the indices out
\* of range; an empty pattern without indices yields slice(i, i) for every i
\* from 1 to the length of the word less 1
C26_TargetMatch ==
    pc = "validate_targets" =>
        \A k \in 1..Len(rule.targets) :
            \E r \in {Target_match(rule.targets[k], heap[word])} :
                /\ r.st = "ok"
                /\ r.found = FoundFor(k - 1)
                /\ \E all \in {Filtered(rule.targets[k].pattern, heap[word])} :
                       /\ \A i \in 1..(Len(all) - 1) :
                              all[i].match.start < all[i + 1].match.start
                       /\ r.found = IF rule.targets[k].indices = <<>> THEN all
                                    ELSE Selected(all, rule.targets[k].indices)
                /\ (rule.targets[k].pattern = <<>> /\ rule.targets[k].indices = <<>>)
                       => r.found = [i \in 1..(Len(heap[word].phones) - 1) |->
                                        [match |-> Slice(i, i),
                                         catixes |-> EmptyCatixes]]

\* _get_targets has run a target whose indices name a later match before
\* an earlier one, one of them from the end, and positions that the list of
\* matches does not have, and a target with the empty pattern
C26_Witness ==
    /\ pc = "validate_targets"
    /\ Len(rule.targets) = 2
    /\ rule.targets[2].pattern = <<>>
    /\ Len(FoundFor(1)) = Len(heap[word].phones) - 1
    /\ \E i \in 1..Len(rule.targets[1].indices) : rule.targets[1].indices[i] < 0
    /\ Len(FoundFor(0)) >= 2
    /\ Len(FoundFor(0)) < Len(rule.targets[1].indices)
    /\ FoundFor(0)[1].match.start > FoundFor(0)[2].match.start

\* the pattern with every TargetRef(1) replaced by the phones of the target
\* in order and every TargetRef(-1) by its phones in reverse order, as
\* Graphemes, at every level of nesting
RECURSIVE Substituted(_, _)
Substituted(elements, target) ==
    LET graphemes == [j \in 1..Len(target) |-> Grapheme(target[j])]
    IN  Concat([i \in 1..Len(elements) |->
            CASE elements[i].type = "TargetRef" ->
                    IF elements[i].direction = 1 THEN graphemes
                    ELSE Reverse(graphemes)
              [] elements[i].type = "Repetition" ->
                    <<Repetition(Substituted(elements[i].pattern, target),
                                 elements[i].number)>>
              [] elements[i].type = "WildcardRepetition" ->
                    <<WildcardRepetition(Substituted(elements[i].pattern, target),
                                         elements[i].greedy)>>
              [] elements[i].type = "Optional" ->
                    <<Optional(Substituted(elements[i].pattern, target),
                               elements[i].greedy)>>
              [] OTHER -> <<elements[i]>>])

\* the replacement patterns of the predicate that validated target number k
ReplacementsFor(k) ==
    LET p == rule.predicates[validated[k].pindex + 1]
    IN  IF p.type = "Subst" THEN SeqToSet(p.replacements) ELSE {}

\* C27: Pattern.resolve replaces every TargetRef(1) by the phones of the
\* target and every TargetRef(-1) by its phones reversed, however many
\* TargetRefs the pattern holds: what resolve makes of the replacement of a
\* validated target is the replacement with every reference substituted
C27_ResolveSubstitutesEveryTargetRef ==
    pc = "get_changes" =>
        \A k \in 1..Len(validated) :
            \A replacement \in ReplacementsFor(k) :
                Pattern_resolve(replacement,
                                Word_slice(heap[word], validated[k].match))
                    = Substituted(replacement,
                                  Word_slice(heap[word], validated[k].match))

\* the ranges that the call holds: those of the targets found and those of
\* the edits queued
Ranges ==
    {targets[i].match : i \in 1..Len(targets)}
        \cup {changes[i].match : i \in 1..Len(changes)}

IsEmpty(a) == a.start = a.stop

\* the positions of the word that the range covers
Covered(a) == a.start..(a.stop - 1)

\* two non-empty ranges overlap when they intersect, two empty ranges when
\* they are identical, an empty and a non-empty one when the empty one lies
\* strictly inside the other
OverlapByCases(a, b) ==
    CASE ~IsEmpty(a) /\ ~IsEmpty(b) -> Covered(a) \cap Covered(b) # {}
      [] IsEmpty(a) /\ IsEmpty(b) -> a = b
      [] IsEmpty(a) /\ ~IsEmpty(b) -> b.start < a.start /\ a.start < b.stop
      [] ~IsEmpty(a) /\ IsEmpty(b) -> a.start < b.start /\ b.start < a.stop

\* C28: overlaps is symmetric, and it is true exactly when two non-empty
\* ranges intersect, two empty ranges are identical, or an empty range lies
\* strictly inside a non-empty one
C28_OverlapsByCases ==
    \A a, b \in Ranges :
        /\ overlaps(a, b) = overlaps(b, a)
        /\ overlaps(a, b) = OverlapByCases(a, b)

\* the call holds an empty range strictly inside a non-empty one, an empty
\* range at the start of a non-empty one, and two empty ranges at different
\* positions
C28_Witness ==
    /\ \E a, b \in Ranges :
           IsEmpty(a) /\ ~IsEmpty(b) /\ overlaps(a, b)
    /\ \E a, b \in Ranges :
           IsEmpty(a) /\ ~IsEmpty(b) /\ a.start = b.start /\ ~overlaps(a, b)
    /\ \E a, b \in Ranges :
           IsEmpty(a) /\ IsEmpty(b) /\ a # b /\ ~overlaps(a, b)

\* the edits that the k-th validated target added to the change-set
KeptOf(k) ==
    {ChangesAfter(k)[i] : i \in (Len(ChangesAfter(k - 1)) + 1)..Len(ChangesAfter(k))}

\* C29: whenever the contribution of a Move is kept in the change-set, the
\* deletion of its target, (match, []), is among the edits kept, whatever
\* was queued before
C29_MoveKeepsDeletion ==
    pc = "apply_changes" =>
        \A k \in 1..Len(validated) :
            (IsMove(k) /\ KeptOf(k) # {}) =>
                Change(validated[k].match, <<>>) \in KeptOf(k)

\* ------------------------------------------------------------------------
\* Properties of RuleBlock._apply, checked under SpecBlock
\* ------------------------------------------------------------------------
\* C4: RuleBlock._apply ends by returning the word: no exception leaves it,
\* neither a RuleDidNotApply of a member rule, nor BlockStopped, nor a
\* failure of the statements that keep the persistent rules
C4_BlockAlwaysReturns ==
    /\ bpc # "raised"
    /\ bexc = "none"

\* A (a > b, persist 2) and B (b > c)
RuleA == Rule(TargetsA, ToB, Flags(0, 0, 0, 1, 2, 100))
RuleB == Rule(TargetsB, ToC, Flags(0, 0, 0, 1, 1, 100))

\* the rules the inner loop reached in an iteration of the outer loop
ReachedIn(iteration) ==
    LET entries == SelectSeq(log, LAMBDA e : e.iteration = iteration)
    IN  [i \in 1..Len(entries) |-> entries[i].rule]

\* the rules an iteration is to reach: the rule declared at that position,
\* then the rules declared before it whose persist reaches that iteration
Replayed(iteration) ==
    LET earlier == SelectSeq([k \in 1..(iteration - 1) |-> k],
                       LAMBDA k : k + block[k].flags.persist > iteration)
    IN  <<block[iteration]>> \o [i \in 1..Len(earlier) |-> block[earlier[i]]]

\* C5: a rule with persist p is reached in the iteration where it is
\* declared and, after the current rule and in declaration order, in each
\* of the next p-1 iterations and in no later one; and the block of A and B
\* run on the word a ends by returning c, having run A, then B, then A
C5_PersistReplay ==
    /\ \A iteration \in 1..cur :
          (iteration < cur \/ (bpc \in {"inner", "for"} /\ queue = <<>>)) =>
              ReachedIn(iteration) = Replayed(iteration)
    /\ (/\ block = <<RuleA, RuleB>>
        /\ binput = ParsedWord(<<pA>>)
        /\ bpc \in {"returned", "raised"}) =>
          /\ bpc = "returned"
          /\ bword.phones = <<pHash, pC, pHash>>
          /\ [i \in 1..Len(log) |-> <<log[i].iteration, log[i].rule, log[i].ran>>]
                = <<<<1, RuleA, TRUE>>, <<2, RuleB, TRUE>>, <<2, RuleA, TRUE>>>>

\* the position in the log of the last rule run before position i, 0 if
\* no rule was run before it
LastRun(i) ==
    IF \E j \in 1..(i - 1) : log[j].ran
    THEN CHOOSE j \in 1..(i - 1) :
             log[j].ran /\ \A k \in (j + 1)..(i - 1) : ~log[k].ran
    ELSE 0

PreviousApplied(i) == LastRun(i) # 0 /\ log[LastRun(i)].outcome = "applied"

\* C6: a rule with ditto +1 is run exactly if the rule run immediately
\* before it applied, a rule with ditto -1 exactly if that rule did not
\* apply or no rule has run yet, and a rule with ditto 0 is always run
C6_DittoGate ==
    \A i \in 1..Len(log) :
        CASE log[i].rule.flags.ditto = 1 -> log[i].ran = PreviousApplied(i)
          [] log[i].rule.flags.ditto = 0 - 1 -> log[i].ran = ~PreviousApplied(i)
          [] OTHER -> log[i].ran

\* a rule with ditto +1 was run after a rule that applied, and a rule with
\* ditto -1 was passed over after a rule that applied
C6_Witness ==
    /\ \E i \in 1..Len(log) :
          log[i].rule.flags.ditto = 1 /\ log[i].ran /\ PreviousApplied(i)
    /\ \E i \in 1..Len(log) :
          log[i].rule.flags.ditto = 0 - 1 /\ ~log[i].ran /\ PreviousApplied(i)

\* C7: once a rule with stop +1 has run and applied, or a rule with stop -1
\* has run and not applied, it is the last rule the block reaches and the
\* block returns the word
C7_StopEndsBlock ==
    \A i \in 1..Len(log) :
        (/\ log[i].ran
         /\ \/ (log[i].rule.flags.stop = 1 /\ log[i].outcome = "applied")
            \/ (log[i].rule.flags.stop = 0 - 1 /\ log[i].outcome = "not applied")) =>
            /\ i = Len(log)
            /\ bpc = "returned"

\* C23: after a rule of a block has been run, applied is true exactly when
\* that run changed the word; a run that raises RuleDidNotApply is caught
\* and counts as not applied, and so does a run that returns the word
\* unchanged.
C23_AppliedIffChanged ==
    [][(Len(log') = Len(log) + 1 /\ log'[Len(log')].ran) =>
           /\ applied' = (bword'.phones # bword.phones)
           /\ log'[Len(log')].outcome = "not applied" =>
                  /\ ~applied'
                  /\ bexc' = "none"]_vars

\* ------------------------------------------------------------------------
\* Properties of Predicate.match, checked under SpecPredicate
\* ------------------------------------------------------------------------
\* every environment of the group matches the target
GroupMatches(group) ==
    \A i \in 1..Len(group) :
        \E r \in {Environment_match(group[i], pword, pmatch, EmptyCatixes)} :
            r.st = "ok" /\ r.val

SomeGroupMatches(groups) == \E g \in 1..Len(groups) : GroupMatches(groups[g])

\* C9: Predicate.match rejects the target when some exception group matches
\* it, whatever the conditions; otherwise it accepts when some condition
\* group matches or the predicate has no condition; otherwise it rejects
C9_ExceptionsThenConditions ==
    ppc = "done" =>
        verdict = Val(IF SomeGroupMatches(predicate.exceptions) THEN FALSE
                      ELSE \/ SomeGroupMatches(predicate.conditions)
                           \/ predicate.conditions = <<>>)

\* a target that an exception group and a condition group both match, each
\* group holding an environment, was rejected
C9_Witness ==
    /\ ppc = "done"
    /\ verdict = Val(FALSE)
    /\ \E g \in 1..Len(predicate.exceptions) :
          predicate.exceptions[g] # <<>> /\ GroupMatches(predicate.exceptions[g])
    /\ \E g \in 1..Len(predicate.conditions) :
          predicate.conditions[g] # <<>> /\ GroupMatches(predicate.conditions[g])

\* C30: a predicate whose exceptions are what _parse_environments gives for
\* a rule text without '!' has no exception that can match: Predicate.match
\* decides by the conditions alone, and when the conditions are what a text
\* without '/' parses to as well, it accepts every target
C30_ParsedWithoutExceptionsNeverRejects ==
    (ppc = "done" /\ predicate.exceptions = ParsedWithoutClause) =>
        /\ verdict = Val(\/ SomeGroupMatches(predicate.conditions)
                         \/ predicate.conditions = <<>>)
        /\ predicate.conditions = ParsedWithoutClause => verdict = Val(TRUE)

\* ------------------------------------------------------------------------
\* Properties of Pattern.match, checked under SpecMatch
\* ------------------------------------------------------------------------
\* C11: every failure to match is returned by Pattern.match as the value
\* (None, {}): the call either returns a match or returns (None, {}), and
\* no MatchFailed and no other exception leaves it
C11_FailureIsReturned ==
    mpc = "done" =>
        /\ mresult.st \in {"ok", "None"}
        /\ mresult.st = "None" => mresult.catixes = EmptyCatixes

\* the phone at the 0-based position j of the word w
PhoneAt(w, j) == w[j + 1]

\* a one-phone element agrees with the phone at position j under the
\* catixes c: a category with a subscript must be bound by c to the position
\* of that phone in the category
ElementAgrees(e, w, j, c) ==
    CASE e.type = "Grapheme" -> PhoneAt(w, j) = e.grapheme
      [] e.type = "Ditto" -> j > 0 /\ PhoneAt(w, j) = PhoneAt(w, j - 1)
      [] e.type = "Wildcard" -> e.extended \/ PhoneAt(w, j) # pHash
      [] e.type = "Category" ->
            IF e.subscript = NoSub
            THEN \E k \in 1..Len(e.category) : e.category[k] = PhoneAt(w, j)
            ELSE /\ e.subscript \in DOMAIN c
                 /\ c[e.subscript] \in 0..(Len(e.category) - 1)
                 /\ e.category[c[e.subscript] + 1] = PhoneAt(w, j)
      [] OTHER -> FALSE

\* the phones lo..hi-1 of the word can be read as the pattern under the
\* catixes c: one phone for each one-phone element, a run of one phone or
\* more for a wildcard, the inner pattern as many times as a repetition
\* says, once or more for a wildcard repetition, once or not at all for an
\* optional
RECURSIVE Reads(_, _, _, _, _)
RECURSIVE ReadsTimes(_, _, _, _, _, _)
RECURSIVE ReadsOnceOrMore(_, _, _, _, _)
Reads(elements, w, lo, hi, c) ==
    IF elements = <<>> THEN lo = hi
    ELSE
    LET e == Head(elements)
        rest == Tail(elements)
    IN  CASE e.type \in {"Grapheme", "Ditto", "Category"} ->
                /\ 0 <= lo
                /\ lo < hi
                /\ ElementAgrees(e, w, lo, c)
                /\ Reads(rest, w, lo + 1, hi, c)
          [] e.type = "Wildcard" ->
                /\ 0 <= lo
                /\ \E mid \in (lo + 1)..hi :
                      /\ \A j \in lo..(mid - 1) : ElementAgrees(e, w, j, c)
                      /\ Reads(rest, w, mid, hi, c)
          [] e.type = "Repetition" ->
                \E mid \in lo..hi :
                    /\ ReadsTimes(e.pattern, e.number, w, lo, mid, c)
                    /\ Reads(rest, w, mid, hi, c)
          [] e.type = "WildcardRepetition" ->
                \E mid \in lo..hi :
                    /\ ReadsOnceOrMore(e.pattern, w, lo, mid, c)
                    /\ Reads(rest, w, mid, hi, c)
          [] e.type = "Optional" ->
                \/ Reads(rest, w, lo, hi, c)
                \/ \E mid \in lo..hi :
                      /\ Reads(e.pattern, w, lo, mid, c)
                      /\ Reads(rest, w, mid, hi, c)
          [] OTHER -> FALSE

ReadsTimes(inner, n, w, lo, hi, c) ==
    IF n = 0 THEN lo = hi
    ELSE \E mid \in lo..hi :
            /\ Reads(inner, w, lo, mid, c)
            /\ ReadsTimes(inner, n - 1, w, mid, hi, c)

ReadsOnceOrMore(inner, w, lo, hi, c) ==
    \E mid \in (lo + 1)..hi :
        /\ Reads(inner, w, lo, mid, c)
        /\ (mid = hi \/ ReadsOnceOrMore(inner, w, mid, hi, c))

\* C12: the catixes of a successful match is consistent with every
\* category reference of the pattern: the matched phones can be read as the
\* pattern with each reference that has a subscript, also inside a
\* Repetition, WildcardRepetition or Optional and in each of its
\* iterations, matching the element catixes[subscript] of its own category
C12_CategoryIndexAgreement ==
    (mpc = "done" /\ mresult.st = "ok") =>
        Reads(mpattern, mword, mresult.match.start, mresult.match.stop,
              mresult.catixes)

\* two references to different categories with the same subscript matched
\* two different phones, and the subscript was bound by the match
C12_Witness ==
    /\ mpc = "done"
    /\ mresult.st = "ok"
    /\ mcatixes = EmptyCatixes
    /\ Len(mpattern) = 2
    /\ \A i \in 1..2 : mpattern[i].type = "Category" /\ mpattern[i].subscript = 1
    /\ mpattern[1].category # mpattern[2].category
    /\ mresult.match.stop = mresult.match.start + 2
    /\ PhoneAt(mword, mresult.match.start) # PhoneAt(mword, mresult.match.start + 1)

\* the other anchor of a successful match, and the call from that anchor
OtherDir == IF mdir = "start" THEN "stop" ELSE "start"
OtherPos == IF mdir = "start" THEN mresult.match.stop ELSE mresult.match.start
FromOtherAnchor == Pattern_match(mpattern, mword, OtherDir, OtherPos, mcatixes)

\* C13 as the specification states it, for every pattern: a match from
\* start = i succeeds with length L if and only if the match from
\* stop = i + L succeeds with length L, and the two return the same catixes
C13_AnchoredSymmetry ==
    (mpc = "done" /\ mresult.st = "ok") =>
        /\ FromOtherAnchor.st = "ok"
        /\ FromOtherAnchor.match = mresult.match
        /\ FromOtherAnchor.catixes = mresult.catixes

\* a pattern every match of which has the same length: graphemes, dittos,
\* categories, and repetitions of such patterns
RECURSIVE FixedLength(_)
FixedLength(elements) ==
    \A i \in 1..Len(elements) :
        \/ elements[i].type \in {"Grapheme", "Ditto", "Category"}
        \/ /\ elements[i].type = "Repetition"
           /\ FixedLength(elements[i].pattern)

\* no category of the pattern lists a phone twice
RECURSIVE CategoriesRepeatNothing(_)
CategoriesRepeatNothing(elements) ==
    \A i \in 1..Len(elements) :
        CASE elements[i].type = "Category" ->
                \A j, k \in 1..Len(elements[i].category) :
                    elements[i].category[j] = elements[i].category[k] => j = k
          [] elements[i].type \in {"Repetition", "WildcardRepetition", "Optional"} ->
                CategoriesRepeatNothing(elements[i].pattern)
          [] OTHER -> TRUE

\* C13, amended: the symmetry holds for the patterns of fixed length whose
\* categories list no phone twice
C13_AnchoredSymmetryOfFixedLength ==
    (/\ mpc = "done"
     /\ mresult.st = "ok"
     /\ FixedLength(mpattern)
     /\ CategoriesRepeatNothing(mpattern)) =>
        /\ FromOtherAnchor.st = "ok"
        /\ FromOtherAnchor.match = mresult.match
        /\ FromOtherAnchor.catixes = mresult.catixes

\* a pattern of fixed length matched two phones backward and bound a
\* subscript
C13_Witness ==
    /\ mpc = "done"
    /\ mresult.st = "ok"
    /\ mdir = "stop"
    /\ FixedLength(mpattern)
    /\ mresult.match.stop = mresult.match.start + 2
    /\ mcatixes = EmptyCatixes
    /\ mresult.catixes # EmptyCatixes

\* the wildcard and the rest of a pattern that is a wildcard followed by a
\* rest: forward the wildcard is the first element, backward the last
WildcardFirst ==
    /\ mpattern # <<>>
    /\ (IF mdir = "start" THEN Head(mpattern) ELSE mpattern[Len(mpattern)]).type
           = "Wildcard"
TheWildcard == IF mdir = "start" THEN Head(mpattern) ELSE mpattern[Len(mpattern)]
TheRest == IF mdir = "start" THEN Tail(mpattern)
           ELSE SubSeq(mpattern, 1, Len(mpattern) - 1)

\* the anchor after a run of k phones
AfterRun(k) == IF mdir = "start" THEN mpos + k ELSE mpos - k
\* the position of the j-th phone of the run, counted from 1
RunPhone(j) == IF mdir = "start" THEN mpos + j - 1 ELSE mpos - j

RestMatchesAnywhere ==
    \A p \in 0..Len(mword) :
        Pattern__match(TheRest, mword, mdir, p, mcatixes).st = "ok"

\* the lengths of the runs the wildcard matches from the anchor
Runs ==
    {k \in 1..Len(mword) :
        \A j \in 1..k :
            /\ RunPhone(j) \in 0..(Len(mword) - 1)
            /\ ElementAgrees(TheWildcard, mword, RunPhone(j), mcatixes)}

\* the total length of the run of k phones and of the rest's own match
\* after it
Total(k) == k + Pattern__match(TheRest, mword, mdir, AfterRun(k), mcatixes).length

\* the run the wildcard takes: the longest if it is greedy, the shortest
\* if it is lazy
LongestRun == CHOOSE k \in Runs : \A other \in Runs : other <= k
ShortestRun == CHOOSE k \in Runs : \A other \in Runs : other >= k
TakenRun == IF TheWildcard.greedy THEN LongestRun ELSE ShortestRun

\* the catixes that bind the subscripts 1 and 2, or some of them, to a
\* position of a category, and agree with the catixes of the call
BindingCatixes ==
    {c \in UNION {[s -> 0..2] : s \in SUBSET {1, 2}} :
        \A s \in DOMAIN mcatixes : s \in DOMAIN c /\ c[s] = mcatixes[s]}

\* after a run of k phones the rest can be read with length m, in some way
\* of taking its optionals and repetitions
RestReads(k, m) ==
    LET lo == IF mdir = "start" THEN mpos + k ELSE mpos - k - m
        hi == IF mdir = "start" THEN mpos + k + m ELSE mpos - k
    IN  /\ 0 <= lo
        /\ hi <= Len(mword)
        /\ \E c \in BindingCatixes : Reads(TheRest, mword, lo, hi, c)

\* the total lengths for which the wildcard run and the rest both match
ValidTotals ==
    {total \in 0..(2 * Len(mword)) :
        \E k \in Runs, m \in 0..Len(mword) : total = k + m /\ RestReads(k, m)}

\* C14 as stated: for a wildcard followed by a rest that matches at any
\* position, the greedy wildcard returns the largest total length for
\* which the wildcard run and the rest both match, and the lazy wildcard
\* the smallest, forward and backward
C14_GreedyLargestTotalLazySmallest ==
    (mpc = "done" /\ WildcardFirst /\ RestMatchesAnywhere /\ Runs # {}) =>
        /\ mresult.st = "ok"
        /\ mresult.match.stop - mresult.match.start \in ValidTotals
        /\ \A total \in ValidTotals :
               IF TheWildcard.greedy
               THEN total <= mresult.match.stop - mresult.match.start
               ELSE total >= mresult.match.stop - mresult.match.start

\* C14, amended: for a wildcard followed by a rest that matches at any
\* position, the match succeeds exactly if the wildcard matches a run from
\* the anchor; the greedy wildcard takes the longest run, the lazy one the
\* shortest, and the match is that run and the rest's own match after it,
\* forward and backward
C14_GreedyLongestRunLazyShortest ==
    (mpc = "done" /\ WildcardFirst /\ RestMatchesAnywhere) =>
        IF Runs = {} THEN mresult.st = "None"
        ELSE /\ mresult.st = "ok"
             /\ IF mdir = "start" THEN mresult.match.start = mpos
                                  ELSE mresult.match.stop = mpos
             /\ mresult.match.stop - mresult.match.start = Total(TakenRun)
             /\ mresult.catixes
                    = Pattern__match(TheRest, mword, mdir, AfterRun(TakenRun),
                                     mcatixes).catixes

\* a greedy wildcard took the longest of two runs, after which the rest
\* matched nothing, though the rest can be read after the shorter run with
\* a larger total
C14_Witness ==
    /\ mpc = "done"
    /\ WildcardFirst
    /\ RestMatchesAnywhere
    /\ TheWildcard.greedy
    /\ TheRest # <<>>
    /\ mresult.st = "ok"
    /\ \E k \in Runs : k < LongestRun
    /\ Total(LongestRun) = LongestRun
    /\ \E total \in ValidTotals : total > Total(LongestRun)

\* every binding of the catixes `given` is in the catixes `returned`, with
\* the same value
Extends(returned, given) ==
    \A s \in DOMAIN given : s \in DOMAIN returned /\ returned[s] = given[s]

\* a successful result has catixes that extend the given ones
Monotone(r) == r.st = "ok" => Extends(r.catixes, mcatixes)

\* C15: whenever a match succeeds, the catixes it returns contains every
\* binding of the catixes it was given, with the same value: for
\* Pattern.match, Pattern._match, the match of each element of the pattern
\* and the match_pattern of each branching element before the rest of the
\* pattern
C15_CatixesOnlyGrow ==
    mpc = "done" =>
        /\ Monotone(mresult)
        /\ Monotone(Pattern__match(mpattern, mword, mdir, mpos, mcatixes))
        /\ \A i \in 1..Len(mpattern) :
              /\ Monotone(Element_match(mpattern[i], mword, mdir, mpos, mcatixes))
              /\ HasMatchPattern(mpattern[i]) =>
                    Monotone(Element_match_pattern(mpattern[i],
                        IF mdir = "start"
                        THEN SubSeq(mpattern, i + 1, Len(mpattern))
                        ELSE SubSeq(mpattern, 1, i - 1),
                        mword, mdir, mpos, mcatixes))

\* a match that was given a binding returned it together with a new one
C15_Witness ==
    /\ mpc = "done"
    /\ mresult.st = "ok"
    /\ DOMAIN mcatixes = {1}
    /\ DOMAIN mresult.catixes = {1, 2}
    /\ mresult.catixes[1] = mcatixes[1]

\* ------------------------------------------------------------------------
\* Properties of the recursion of Pattern.match, checked under SpecDepth
\* ------------------------------------------------------------------------
\* the nesting of a pattern: 1 for a pattern without sub-patterns, one more
\* than its deepest sub-pattern otherwise
RECURSIVE Nesting(_)
Nesting(elements) ==
    LET inner == {Nesting(elements[i].pattern) :
                     i \in {j \in 1..Len(elements) :
                               elements[j].type \in {"Repetition", "WildcardRepetition",
                                                     "Optional"}}} \cup {0}
    IN  1 + CHOOSE n \in inner : \A m \in inner : m <= n

\* C21: every call of Pattern.match terminates, the depth of the recursion
\* of the matcher being bounded by the nesting of the pattern and the length
\* of the word: no more activations of match_pattern are in progress than
\* the word has phones and the pattern has levels.
C21_DepthBounded ==
    Len(mstack) <= Len(mword) + Nesting(mpattern)

\* ------------------------------------------------------------------------
\* Properties of parse, unparse and Word.parse, checked under SpecWords
\* ------------------------------------------------------------------------
\* the length of the longest entry of the inventory that the string starts
\* with, a * on either side standing for any character; 0 when there is none
LongestEntry(string) ==
    LET lengths == {Len(sgraphemes[i]) : i \in
                       {j \in 1..Len(sgraphemes) :
                            /\ sgraphemes[j] # <<>>
                            /\ startswith(string, sgraphemes[j], FALSE)}} \cup {0}
    IN  CHOOSE n \in lengths : \A m \in lengths : m <= n

\* what is left of the string when the k-th phone is emitted: the leading
\* separators are consumed first and again after every phone
RECURSIVE RemainingAt(_)
RemainingAt(k) ==
    IF k = 1 THEN lstrip(sstring, sseparator)
    ELSE LET before == RemainingAt(k - 1)
         IN  lstrip(SubSeq(before, Len(sparsed.phones[k - 1]) + 1, Len(before)),
                    sseparator)

\* taking the longest entry at every position consumes the whole string
RECURSIVE LongestWalk(_)
LongestWalk(string) ==
    \/ string = <<>>
    \/ /\ LongestEntry(string) > 0
       /\ LongestWalk(lstrip(SubSeq(string, LongestEntry(string) + 1, Len(string)),
                             sseparator))

\* C16: parse is longest-match-first: every phone it emits is the beginning
\* of the remaining string and has the length of the longest entry of the
\* inventory that matches there, and parse fails with InvalidCharacter
\* exactly when at some position of that walk no entry matches.
C16_LongestMatchFirst ==
    spc \in {"parsed", "unparsed"} =>
        /\ sparsed.st \in {"ok", "InvalidCharacter"}
        /\ sparsed.st = "ok" <=> LongestWalk(lstrip(sstring, sseparator))
        /\ sparsed.st = "ok" =>
               \A k \in 1..Len(sparsed.phones) :
                   /\ Len(sparsed.phones[k]) = LongestEntry(RemainingAt(k))
                   /\ sparsed.phones[k] =
                          SubSeq(RemainingAt(k), 1, Len(sparsed.phones[k]))

\* a phone of two characters was emitted where a shorter entry matches too
C16_Witness ==
    /\ spc = "parsed"
    /\ sparsed.st = "ok"
    /\ \E k \in 1..Len(sparsed.phones) :
           /\ Len(sparsed.phones[k]) = 2
           /\ \E i \in 1..Len(sgraphemes) :
                  /\ Len(sgraphemes[i]) = 1
                  /\ startswith(RemainingAt(k), sgraphemes[i], FALSE)

\* no entry of the inventory is the beginning of another, longer entry
Unambiguous(graphemes) ==
    \A i, j \in 1..Len(graphemes) :
        graphemes[i] # <<>> => ~startswith(graphemes[j], graphemes[i], TRUE)

\* the string without the characters of the separator
WithoutSeparators(string) ==
    SelectSeq(string, LAMBDA c : c \notin SeqToSet(sseparator))

\* C17 as stated: when the phones of parse are unparsed with the same
\* inventory and separator, the result is the string for an inventory whose
\* entries are pairwise unambiguous, and the string up to separators for
\* every other inventory.
C17_RoundTrip ==
    spc = "unparsed" =>
        IF Unambiguous(sgraphemes)
        THEN sunparsed = sstring
        ELSE WithoutSeparators(sunparsed) = WithoutSeparators(sstring)

\* C17, amended: the round trip gives the string up to separators for every
\* inventory; it gives the string itself whenever the string holds no
\* character of the separator, whatever the inventory; and for pairwise
\* unambiguous entries and a string without * it gives the phones joined,
\* which is the string without the separators that parse consumed.
C17_RoundTripUpToSeparators ==
    spc = "unparsed" =>
        /\ WithoutSeparators(sunparsed) = WithoutSeparators(sstring)
        /\ WithoutSeparators(sstring) = sstring => sunparsed = sstring
        /\ Unambiguous(sgraphemes) /\ "*" \notin SeqToSet(sstring) =>
               sunparsed = join(sparsed.phones)

\* a string with a separator inside went through an inventory that holds a
\* digraph and is unambiguous: two phones come back without the separator
C17_Witness ==
    /\ spc = "unparsed"
    /\ sseparator = <<".">>
    /\ Unambiguous(sgraphemes)
    /\ \E k \in 1..Len(sgraphemes) : Len(sgraphemes[k]) = 2
    /\ Len(sparsed.phones) = 2
    /\ sunparsed = join(sparsed.phones)
    /\ sunparsed # sstring

\* the string between two blanks, as Word.parse frames it
Framed == <<" ">> \o sstring \o <<" ">>

\* the number of maximal runs of whitespace of the framed string
WhitespaceRuns ==
    Cardinality({i \in 1..Len(Framed) :
                     /\ Framed[i] \in Whitespace
                     /\ i > 1 => Framed[i - 1] \notin Whitespace})

\* the positions of the phones that are #
HashPhones(phones) == {k \in 1..Len(phones) : phones[k] = <<"#">>}

\* C18: for every string whose characters other than whitespace the
\* inventory can parse, Word.parse returns a word whose phones begin with
\* the phone # and end with the phone #, with one # phone for the blanks
\* before the string, one for those after it and one for every maximal run
\* of whitespace inside it.
C18_HashFraming ==
    (/\ spc = "word"
     /\ parse(SelectSeq(sstring, LAMBDA c : c \notin Whitespace),
              sgraphemes, sseparator).st = "ok") =>
        /\ sword.st = "ok"
        /\ sword.word.phones # <<>>
        /\ sword.word.phones[1] = <<"#">>
        /\ sword.word.phones[Len(sword.word.phones)] = <<"#">>
        /\ Cardinality(HashPhones(sword.word.phones)) = WhitespaceRuns

====
